---- MODULE Spec2Model ----
(***************************************************************************)
(* Model of the archive service of the comment platform: archiveStory,     *)
(* unarchiveStory and moveDocuments (src/unnamed/part_000), run against a   *)
(* live and an archive document store, the site aggregate of the primary   *)
(* store and the shared (cache) aggregate.                                  *)
(***************************************************************************)
EXTENDS Integers, Sequences, FiniteSets, TLC

\* ------------------------------------------------------------------ bounds
\* moveDocuments' batch size.  The source sets 100 (part_000:278); the model
\* scales it down so that a story's comments span a full batch and a rest.
BATCH_SIZE == 2
\* Comments of the story that is archived.
NumComments == 3
\* Calls of archiveStory/unarchiveStory issued in one behaviour.
MaxCalls == 3
\* Calls of the comment model's operations issued in one behaviour.
MaxOps == 2

\* ------------------------------------------------------------------ data
Procs == {1, 2}
\* The callers that issue calls in the sequential specification.
SeqProcs == {1}

Statuses == {"NONE", "PREMOD", "APPROVED", "REJECTED"}
QueueNames == {"unmoderated", "reported", "pending"}
CollNames == {"comments", "commentActions", "commentModerationActions"}
StoreNames == {"live", "archive"}

\* The story that is archived, a story of another tenant with the same id,
\* and a key that matches no story.
TheStory == <<"t1", "s1">>
OtherTenantStory == <<"t2", "s1">>
NoStory == <<"t1", "s2">>
StoryKeys == {TheStory, OtherTenantStory}
Targets == {TheStory, NoStory}

StatusOf(i) == IF i % 3 = 0 THEN "PREMOD" ELSE "APPROVED"

CommentDoc(o, t, i, s, st) ==
    [oid |-> o, tenantID |-> t, id |-> i, storyID |-> s, status |-> st,
     revisions |-> <<[id |-> o, body |-> o]>>]

\* Comment i of TheStory has _id i and id i; the other tenant's comment has
\* the same id 1 and the same storyID.
InitComments ==
    {CommentDoc(i, "t1", i, "s1", StatusOf(i)) : i \in 1..NumComments}
    \cup {CommentDoc(0, "t2", 1, "s1", "NONE")}

ActionDoc(o, t, i, s, c) ==
    [oid |-> o, tenantID |-> t, id |-> i, storyID |-> s, commentID |-> c,
     actionType |-> "REACTION"]

InitCommentActions ==
    {ActionDoc(1, "t1", 1, "s1", 1), ActionDoc(2, "t1", 2, "s1", 2),
     ActionDoc(0, "t2", 1, "s1", 1)}

ModActionDoc(o, t, i, c) ==
    [oid |-> o, tenantID |-> t, id |-> i, commentID |-> c, status |-> "APPROVED"]

InitModerationActions ==
    {ModActionDoc(1, "t1", 1, 1), ModActionDoc(0, "t2", 1, 1)}

\* ------------------------------------------------------------------ counts
\* createEmptyRelatedCommentCounts: no action keys, every other leaf 0.
createEmptyRelatedCommentCounts ==
    [action |-> [k \in {} |-> 0],
     moderationQueue |-> [total |-> 0, queues |-> [q \in QueueNames |-> 0]],
     status |-> [s \in Statuses |-> 0]]

\* Faulty getCommentCounts: the multiplier is 1 whatever negate says.
getCommentCounts_NoNegate(commentCounts, negate) ==
    [action |-> [k \in DOMAIN commentCounts.action |-> commentCounts.action[k]],
     moderationQueue |->
        [total |-> commentCounts.moderationQueue.total,
         queues |-> [q \in DOMAIN commentCounts.moderationQueue.queues |->
                        commentCounts.moderationQueue.queues[q]]],
     status |-> [s \in DOMAIN commentCounts.status |-> commentCounts.status[s]]]

\* Faulty getCommentCounts: the per-queue totals are not copied.
getCommentCounts_NoQueues(commentCounts, negate) ==
    LET multiplier == IF negate THEN -1 ELSE 1
        result == createEmptyRelatedCommentCounts
        scaled(from, into) ==
            [k \in DOMAIN into \cup DOMAIN from |->
                IF k \in DOMAIN from THEN from[k] * multiplier ELSE into[k]]
    IN  [action |-> scaled(commentCounts.action, result.action),
         moderationQueue |->
            [total |-> commentCounts.moderationQueue.total * multiplier,
             queues |-> result.moderationQueue.queues],
         status |-> scaled(commentCounts.status, result.status)]

\* getCommentCounts: every leaf of the story's counts times -1 or +1, copied
\* key by key into an empty RelatedCommentCounts.
getCommentCounts(commentCounts, negate) ==
    LET multiplier == IF negate THEN -1 ELSE 1
        result == createEmptyRelatedCommentCounts
        scaled(from, into) ==
            [k \in DOMAIN into \cup DOMAIN from |->
                IF k \in DOMAIN from THEN from[k] * multiplier ELSE into[k]]
    IN  [action |-> scaled(commentCounts.action, result.action),
         moderationQueue |->
            [total |-> commentCounts.moderationQueue.total * multiplier,
             queues |-> scaled(commentCounts.moderationQueue.queues,
                               result.moderationQueue.queues)],
         status |-> scaled(commentCounts.status, result.status)]

\* The atomic increment ($inc) of an aggregate by a delta, leaf by leaf; an
\* action key the aggregate does not have yet starts at 0.
IncCounts(agg, delta) ==
    LET act(c, k) == IF k \in DOMAIN c.action THEN c.action[k] ELSE 0
    IN  [action |-> [k \in DOMAIN agg.action \cup DOMAIN delta.action |->
                        act(agg, k) + act(delta, k)],
         moderationQueue |->
            [total |-> agg.moderationQueue.total + delta.moderationQueue.total,
             queues |-> [q \in QueueNames |->
                            agg.moderationQueue.queues[q]
                            + delta.moderationQueue.queues[q]]],
         status |-> [s \in Statuses |-> agg.status[s] + delta.status[s]]]

\* The commentCounts a story holds for its comments and their actions.
StoryCounts(key) ==
    LET cs == {c \in InitComments : c.tenantID = key[1] /\ c.storyID = key[2]}
        as == {a \in InitCommentActions :
                  a.tenantID = key[1] /\ a.storyID = key[2]}
        n(st) == Cardinality({c \in cs : c.status = st})
    IN  [action |-> [k \in {"REACTION"} |-> Cardinality(as)],
         moderationQueue |->
            [total |-> n("NONE") + n("PREMOD"),
             queues |-> [q \in QueueNames |->
                            IF q = "unmoderated" THEN n("NONE")
                            ELSE IF q = "pending" THEN n("PREMOD") ELSE 0]],
         status |-> [s \in Statuses |-> n(s)]]

\* What the other stories of the site and of the tenant contribute.
OtherCounts ==
    [action |-> [k \in {"REACTION"} |-> 1],
     moderationQueue |->
        [total |-> 1, queues |-> [q \in QueueNames |->
                                     IF q = "reported" THEN 1 ELSE 0]],
     status |-> [s \in Statuses |-> IF s = "APPROVED" THEN 1 ELSE 0]]

\* ------------------------------------------------------------------ state
VARIABLES
    stories,       \* stories collection: story key -> flags and commentCounts
    db,            \* db[store][collection]: the documents of a collection
    siteCounts,    \* primary-store aggregate, by the (tenantID, id) of the call
    sharedCounts,  \* cache aggregate, by tenantID
    proc,          \* per caller: position in the call and its local variables
    log,           \* outcomes of the calls that have ended, oldest first
    pre            \* the stores and aggregates as they were initially

\* The comments collection of the comment model (comment.ts) and its callers.
VARIABLES
    comments,      \* the comment documents
    clock,         \* the clock that new Date() reads
    uuid,          \* the last identity uuid.v4() handed out
    cp,            \* per caller: the call in progress, its locals, its result
    linked         \* the (parent, child) pairs pushed onto a parent, oldest first

\* The deltas getCommentCounts has computed, each from the one before it.
VARIABLES
    chain          \* the counts given first, then the result of every call

archiveVars == <<stories, db, siteCounts, sharedCounts, proc, log, pre>>
commentVars == <<comments, clock, uuid, cp, linked>>
deltaVars == <<chain>>
vars == <<stories, db, siteCounts, sharedCounts, proc, log, pre,
          comments, clock, uuid, cp, linked, chain>>

Phases == <<"comments", "commentActions", "commentModerationActions">>

Idle ==
    [pc |-> "idle", op |-> "none", target |-> NoStory, result |-> "none",
     startFlags |-> <<FALSE, FALSE>>,
     targetStory |-> [isArchived |-> FALSE, isArchiving |-> FALSE,
                      commentCounts |-> createEmptyRelatedCommentCounts],
     phase |-> 1,
     cursorOpen |-> FALSE, cursor |-> {}, insertBatch |-> {},
     deleteIDs |-> {}, allIDs |-> {}, targetCommentIDs |-> {}]

Flags(key) ==
    IF key \in DOMAIN stories
    THEN <<stories[key].isArchiving, stories[key].isArchived>>
    ELSE <<FALSE, FALSE>>

\* ------------------------------------------------------------------ comment model: data
EDITABLE_STATUSES == {"NONE", "PREMOD", "APPROVED"}

\* No action counts: {} in the source.
NoCounts == [k \in {} |-> 0]
OneReaction == [k \in {"REACTION"} |-> 1]

\* A date that is absent is the empty tuple, a date that is set <<t>>.
NoDate == <<>>

\* A revision as createComment and editComment build it.
Revision(id, body, actionCounts, now) ==
    [id |-> id, body |-> body, actionCounts |-> actionCounts,
     metadata |-> body, createdAt |-> now]

\* The comment every behaviour starts with: written by u1 on story s1 at
\* time 1, with one revision; tenant t2 has a comment with the same id, the
\* same author and the same story id.
FirstComment(tenantID, status, deletedAt) ==
    [tenantID |-> tenantID, id |-> 1, storyID |-> "s1", authorID |-> "u1",
     parentID |-> 0, status |-> status, actionCounts |-> NoCounts,
     childIDs |-> <<>>, childCount |-> 0, tags |-> <<>>,
     revisions |-> <<Revision(IF tenantID = "t1" THEN 1 ELSE 2, "b0", NoCounts, 1)>>,
     createdAt |-> 1, deletedAt |-> deletedAt]

NoCall ==
    [pc |-> "idle", op |-> "none", tenantID |-> "t1", input |-> <<>>,
     revision |-> <<>>, result |-> "none", ret |-> <<>>, stored |-> <<>>]

CommentsInit ==
    /\ \E status \in {"NONE", "REJECTED"}, deletedAt \in {NoDate, <<1>>} :
          comments = {FirstComment("t1", status, deletedAt),
                      FirstComment("t2", "NONE", NoDate)}
    /\ clock = 2
    /\ uuid = 2
    /\ cp = [p \in Procs |-> NoCall]
    /\ linked = <<>>

\* The stores of the archive service as they are initially.
ArchiveInit ==
    /\ \E archiving \in BOOLEAN :
          stories = [k \in StoryKeys |->
                        [isArchived |-> FALSE,
                         isArchiving |-> IF k = TheStory THEN archiving ELSE FALSE,
                         commentCounts |-> StoryCounts(k)]]
    /\ db = [s \in StoreNames |->
                IF s = "live"
                THEN [comments |-> InitComments,
                      commentActions |-> InitCommentActions,
                      commentModerationActions |-> InitModerationActions]
                ELSE [c \in CollNames |-> {}]]
    /\ siteCounts = [k \in StoryKeys |-> IncCounts(StoryCounts(k), OtherCounts)]
    /\ sharedCounts = [t \in {"t1", "t2"} |->
                          IncCounts(StoryCounts(<<t, "s1">>), OtherCounts)]
    /\ proc = [p \in Procs |-> Idle]
    /\ log = <<>>
    /\ pre = [db |-> db, siteCounts |-> siteCounts, sharedCounts |-> sharedCounts,
              stories |-> stories]

\* The archive service starts beside a comments collection that stays as it
\* is.
Init ==
    /\ ArchiveInit
    /\ CommentsInit
    /\ \A c \in comments : c.status = "NONE" /\ c.deletedAt = NoDate
    /\ chain = <<>>

\* ------------------------------------------------------------------ calls
InProgress == {p \in Procs : proc[p].pc # "idle"}

\* The call of p ends with result r: its locals are dropped and the outcome
\* is recorded.
Finish(p, r) ==
    /\ proc' = [proc EXCEPT ![p] =
                  [Idle EXCEPT !.op = proc[p].op, !.target = proc[p].target,
                               !.startFlags = proc[p].startFlags, !.result = r]]
    /\ log' = Append(log, [op |-> proc[p].op, target |-> proc[p].target,
                           result |-> r])

\* archiveStory or unarchiveStory is called with (tenantID, id) = key.
Call(p, o, key) ==
    /\ proc[p].pc = "idle"
    /\ Len(log) + Cardinality(InProgress) < MaxCalls
    /\ proc' = [proc EXCEPT ![p] =
                  [Idle EXCEPT !.pc = "findStory", !.op = o, !.target = key,
                               !.startFlags = Flags(key)]]
    /\ UNCHANGED <<stories, db, siteCounts, sharedCounts, log, pre>>
    /\ UNCHANGED <<commentVars, deltaVars>>

\* Faulty early return: the isArchived test is left out.
NothingToDo_Never(o, story) == FALSE

\* archiveStory returns early on an archived story, unarchiveStory on a story
\* that is not archived.
NothingToDo(o, story) ==
    IF o = "archive" THEN story.isArchived ELSE ~story.isArchived

\* Faulty lookup: the test for a missing story is left out.
FoundStory_Always(key) == TRUE

\* if (!targetStory) throw new StoryNotFoundError(id)
FoundStory(key) == key \in DOMAIN stories

\* stories(mongo.live).findOne({id, tenantID}); null has no flag set and no
\* counts.
findOne(key) ==
    IF key \in DOMAIN stories THEN stories[key] ELSE Idle.targetStory

\* The start of archiveStory and unarchiveStory: the story is read, and the
\* call ends if there is none or if there is nothing to do.
FindStory(p) ==
    /\ proc[p].pc = "findStory"
    /\ UNCHANGED <<stories, db, siteCounts, sharedCounts, pre>>
    /\ UNCHANGED <<commentVars, deltaVars>>
    /\ IF ~FoundStory(proc[p].target)
       THEN Finish(p, "StoryNotFound")
       ELSE IF NothingToDo(proc[p].op, findOne(proc[p].target))
       THEN Finish(p, "noop")
       ELSE /\ proc' = [proc EXCEPT ![p].pc = "hasNext",
                                    ![p].targetStory = findOne(proc[p].target),
                                    ![p].phase = 1]
            /\ UNCHANGED log

\* ------------------------------------------------------------------ moveDocuments
Source(p) == IF proc[p].op = "archive" THEN "live" ELSE "archive"
Destination(p) == IF proc[p].op = "archive" THEN "archive" ELSE "live"
Coll(p) == Phases[proc[p].phase]

\* The documents the selection cursor of the current moveDocuments finds:
\* comments and comment actions by {tenantID, storyID}, moderation actions by
\* {tenantID, commentID in targetCommentIDs}.
Selection(p) ==
    LET docs == db[Source(p)][Coll(p)]
        tenantID == proc[p].target[1]
        id == proc[p].target[2]
    IN  IF Coll(p) = "commentModerationActions"
        THEN {d \in docs : d.tenantID = tenantID
                           /\ d.commentID \in proc[p].targetCommentIDs}
        ELSE {d \in docs : d.tenantID = tenantID /\ d.storyID = id}

\* One turn of the while loop: the cursor runs its query on the first
\* hasNext; next() hands over one document, which is pushed on the batch.
HasNext(p) ==
    /\ proc[p].pc = "hasNext"
    /\ UNCHANGED <<stories, db, siteCounts, sharedCounts, log, pre>>
    /\ UNCHANGED <<commentVars, deltaVars>>
    /\ LET cur == IF proc[p].cursorOpen THEN proc[p].cursor ELSE Selection(p)
       IN  IF cur = {}
           THEN proc' = [proc EXCEPT ![p].pc = "finalInsert",
                                     ![p].cursorOpen = TRUE, ![p].cursor = {}]
           ELSE \E document \in cur :
                  LET batch == proc[p].insertBatch \cup {document}
                  IN  proc' = [proc EXCEPT
                          ![p].cursorOpen = TRUE,
                          ![p].cursor = cur \ {document},
                          ![p].insertBatch = batch,
                          ![p].deleteIDs = @ \cup {document.id},
                          ![p].allIDs = IF Coll(p) = "comments"
                                        THEN @ \cup {document.id} ELSE @,
                          ![p].pc = IF Cardinality(batch) >= BATCH_SIZE
                                    THEN "insert" ELSE "hasNext"]

\* The documents of a batch whose _id the destination already holds.
Duplicates(p) ==
    {d \in proc[p].insertBatch :
        \E e \in db[Destination(p)][Coll(p)] : e.oid = d.oid}

\* Faulty bulk insert: nothing is written to the destination.
Inserted_Nothing(p) == db[Destination(p)][Coll(p)]

\* The destination after the unordered bulk insert of the batch: every
\* document whose _id is not there yet is written.
Inserted(p) ==
    db[Destination(p)][Coll(p)] \cup (proc[p].insertBatch \ Duplicates(p))

\* bulkInsert.execute(), in the loop and after it.  A duplicate _id makes
\* execute() throw after the other documents are written.
BulkInsert(p) ==
    /\ proc[p].pc \in {"insert", "finalInsert"}
    /\ UNCHANGED <<stories, siteCounts, sharedCounts, pre>>
    /\ UNCHANGED <<commentVars, deltaVars>>
    /\ IF proc[p].insertBatch = {}
       THEN /\ proc' = [proc EXCEPT ![p].pc = "finalDelete"]
            /\ UNCHANGED <<db, log>>
       ELSE /\ db' = [db EXCEPT ![Destination(p)][Coll(p)] = Inserted(p)]
            /\ IF Duplicates(p) # {}
               THEN Finish(p, "DuplicateKey")
               ELSE /\ proc' = [proc EXCEPT ![p].pc =
                                  IF proc[p].pc = "insert"
                                  THEN "delete" ELSE "finalDelete"]
                    /\ UNCHANGED log

\* Faulty bulk delete: the ids are deleted whatever their tenant.
Deleted_AnyTenant(p) ==
    {d \in db[Source(p)][Coll(p)] : d.id \notin proc[p].deleteIDs}

\* The source after bulkDelete.find({tenantID, id: {$in: deleteIDs}}).remove().
Deleted(p) ==
    {d \in db[Source(p)][Coll(p)] :
        ~(d.tenantID = proc[p].target[1] /\ d.id \in proc[p].deleteIDs)}

\* bulkDelete.execute() in the loop: the batch is emptied and the loop goes on.
BulkDelete(p) ==
    /\ proc[p].pc = "delete"
    /\ db' = [db EXCEPT ![Source(p)][Coll(p)] = Deleted(p)]
    /\ proc' = [proc EXCEPT ![p].pc = "hasNext", ![p].insertBatch = {},
                            ![p].deleteIDs = {}]
    /\ UNCHANGED <<stories, siteCounts, sharedCounts, log, pre>>
    /\ UNCHANGED <<commentVars, deltaVars>>

\* The delete after the loop and the return of moveDocuments: the caller
\* goes on with the next collection, and after the last with the counts.
FinalDelete(p) ==
    /\ proc[p].pc = "finalDelete"
    /\ db' = IF proc[p].deleteIDs = {} THEN db
             ELSE [db EXCEPT ![Source(p)][Coll(p)] = Deleted(p)]
    /\ proc' = [proc EXCEPT
          ![p].pc = IF proc[p].phase < Len(Phases) THEN "hasNext" ELSE "siteCounts",
          ![p].phase = IF proc[p].phase < Len(Phases) THEN @ + 1 ELSE @,
          ![p].targetCommentIDs = IF Coll(p) = "comments" THEN proc[p].allIDs ELSE @,
          ![p].cursorOpen = FALSE, ![p].cursor = {}, ![p].insertBatch = {},
          ![p].deleteIDs = {}, ![p].allIDs = {}]
    /\ UNCHANGED <<stories, siteCounts, sharedCounts, log, pre>>
    /\ UNCHANGED <<commentVars, deltaVars>>

\* ------------------------------------------------------------------ counts and flags
\* The delta of the call: the story's counts as read by findOne, negated by
\* archiveStory and as they are by unarchiveStory.
Delta(p) ==
    getCommentCounts(proc[p].targetStory.commentCounts, proc[p].op = "archive")

\* Faulty final update: isArchiving is left as it is.
Marked_KeepArchiving(p) ==
    IF proc[p].target \in DOMAIN stories
    THEN [stories EXCEPT ![proc[p].target] =
            [@ EXCEPT !.isArchived = (proc[p].op = "archive")]]
    ELSE stories

\* The stories collection after the final findOneAndUpdate({id, tenantID},
\* {$set: {isArchiving: false, isArchived: true | false}}).
Marked(p) ==
    IF proc[p].target \in DOMAIN stories
    THEN [stories EXCEPT ![proc[p].target] =
            [@ EXCEPT !.isArchiving = FALSE,
                      !.isArchived = (proc[p].op = "archive")]]
    ELSE stories

\* Faulty order: the story's flags are written with the site update, before
\* the cache update.
UpdateSiteCounts_MarksFirst(p) ==
    /\ proc[p].pc = "siteCounts"
    /\ siteCounts' = IF proc[p].target \in DOMAIN siteCounts
                     THEN [siteCounts EXCEPT ![proc[p].target] =
                             IncCounts(@, Delta(p))]
                     ELSE siteCounts
    /\ stories' = Marked(p)
    /\ proc' = [proc EXCEPT ![p].pc = "sharedCounts"]
    /\ UNCHANGED <<db, sharedCounts, log, pre>>
    /\ UNCHANGED <<commentVars, deltaVars>>

\* updateSiteCounts(mongo.live, tenantID, id, commentCounts): the aggregate
\* of the primary store addressed by (tenantID, id) is incremented atomically.
UpdateSiteCounts(p) ==
    /\ proc[p].pc = "siteCounts"
    /\ siteCounts' = IF proc[p].target \in DOMAIN siteCounts
                     THEN [siteCounts EXCEPT ![proc[p].target] =
                             IncCounts(@, Delta(p))]
                     ELSE siteCounts
    /\ proc' = [proc EXCEPT ![p].pc = "sharedCounts"]
    /\ UNCHANGED <<stories, db, sharedCounts, log, pre>>
    /\ UNCHANGED <<commentVars, deltaVars>>

\* Faulty cache update: the aggregate is read, and the sum is written back
\* over what other callers have added since; here it is the value it had at
\* first that the delta is added to.
UpdateSharedCounts_ReadThenWrite(p) ==
    /\ proc[p].pc = "sharedCounts"
    /\ sharedCounts' = [sharedCounts EXCEPT ![proc[p].target[1]] =
                           IncCounts(pre.sharedCounts[proc[p].target[1]], Delta(p))]
    /\ proc' = [proc EXCEPT ![p].pc = "mark"]
    /\ UNCHANGED <<stories, db, siteCounts, log, pre>>
    /\ UNCHANGED <<commentVars, deltaVars>>

\* updateSharedCommentCounts(redis, tenantID, commentCounts): the tenant's
\* aggregate in the cache is incremented atomically.
UpdateSharedCounts(p) ==
    /\ proc[p].pc = "sharedCounts"
    /\ sharedCounts' = [sharedCounts EXCEPT ![proc[p].target[1]] =
                           IncCounts(@, Delta(p))]
    /\ proc' = [proc EXCEPT ![p].pc = "mark"]
    /\ UNCHANGED <<stories, db, siteCounts, log, pre>>
    /\ UNCHANGED <<commentVars, deltaVars>>

\* The final flag update; the call returns the story.
MarkStory(p) ==
    /\ proc[p].pc = "mark"
    /\ stories' = Marked(p)
    /\ Finish(p, "ok")
    /\ UNCHANGED <<db, siteCounts, sharedCounts, pre>>
    /\ UNCHANGED <<commentVars, deltaVars>>

\* ------------------------------------------------------------------ failures
\* p is about to execute a bulk insert, a bulk delete or a counts update.
StoreOpPending(p) ==
    \/ proc[p].pc \in {"insert", "delete", "siteCounts", "sharedCounts"}
    \/ proc[p].pc = "finalInsert" /\ proc[p].insertBatch # {}
    \/ proc[p].pc = "finalDelete" /\ proc[p].deleteIDs # {}

\* The store or the cache fails the operation: it writes nothing, the
\* exception propagates and the call is aborted.
StoreFails(p) ==
    /\ StoreOpPending(p)
    /\ Finish(p, "StoreFailure")
    /\ UNCHANGED <<stories, db, siteCounts, sharedCounts, pre>>
    /\ UNCHANGED <<commentVars, deltaVars>>

\* The process running the call stops between two steps of the call.
Interrupt(p) ==
    /\ proc[p].pc \notin {"idle", "findStory"}
    /\ Finish(p, "Interrupted")
    /\ UNCHANGED <<stories, db, siteCounts, sharedCounts, pre>>
    /\ UNCHANGED <<commentVars, deltaVars>>

\* ------------------------------------------------------------------ specification
Step(p) ==
    \/ \E o \in {"archive", "unarchive"}, key \in Targets : Call(p, o, key)
    \/ FindStory(p)
    \/ HasNext(p)
    \/ BulkInsert(p)
    \/ BulkDelete(p)
    \/ FinalDelete(p)
    \/ UpdateSiteCounts(p)
    \/ UpdateSharedCounts(p)
    \/ MarkStory(p)
    \/ StoreFails(p)
    \/ Interrupt(p)

\* One caller at a time: no concurrent writers.
Next == \E p \in SeqProcs : Step(p)

Spec == Init /\ [][Next]_vars

\* ------------------------------------------------------------------ properties
\* The documents of a collection that belong to the story key: comments and
\* comment actions carry its storyID, moderation actions the id of one of
\* its comments.
StoryComments(store, key) ==
    {d \in db[store].comments : d.tenantID = key[1] /\ d.storyID = key[2]}

StoryCommentsAtFirst(key) ==
    {d \in pre.db.live.comments : d.tenantID = key[1] /\ d.storyID = key[2]}

StoryCommentIDs(key) == {d.id : d \in StoryCommentsAtFirst(key)}

ActionsOf(actions, modActions, key) ==
    {d \in actions : d.tenantID = key[1] /\ d.commentID \in StoryCommentIDs(key)}
    \cup {d \in modActions :
             d.tenantID = key[1] /\ d.commentID \in StoryCommentIDs(key)}

StoryActions(store, key) ==
    ActionsOf(db[store].commentActions, db[store].commentModerationActions, key)

StoryActionsAtFirst(key) ==
    ActionsOf(pre.db.live.commentActions,
              pre.db.live.commentModerationActions, key)

\* The call of p has returned from its final flag update.
Completed(p, o) ==
    proc[p].pc = "idle" /\ proc[p].op = o /\ proc[p].result = "ok"

\* No call so far was interrupted or aborted.
NoFailedCall ==
    \A i \in 1..Len(log) : log[i].result \in {"ok", "noop", "StoryNotFound"}

OnlyArchiveCalls == \A i \in 1..Len(log) : log[i].op = "archive"

\* C1: when archiveStory has completed, the live store holds no comment of
\* the story and the archive store holds every comment the story had, each
\* the same document.
C1_ArchiveMovesEveryComment ==
    \A p \in Procs :
        Completed(p, "archive") =>
            /\ StoryComments("live", proc[p].target) = {}
            /\ StoryComments("archive", proc[p].target)
                  = StoryCommentsAtFirst(proc[p].target)

C1_Witness ==
    \E p \in Procs :
        /\ Completed(p, "archive")
        /\ Cardinality(StoryComments("archive", proc[p].target)) = NumComments

\* C2: over any sequence of archive attempts that ends with the story marked
\* archived, the site aggregate and the cache aggregate are each the initial
\* value less the story's commentCounts, once.
C2_CountsSubtractedOnce ==
    \A p \in Procs :
        (Completed(p, "archive") /\ OnlyArchiveCalls) =>
            LET key == proc[p].target
                delta == getCommentCounts(pre.stories[key].commentCounts, TRUE)
            IN  /\ siteCounts[key] = IncCounts(pre.siteCounts[key], delta)
                /\ sharedCounts[key[1]] = IncCounts(pre.sharedCounts[key[1]], delta)

\* C3: an archive that is re-issued after an interrupted archive of the same
\* story does not fail on the documents the interrupted call left behind.
C3_ReissuedArchiveCompletes ==
    \A i \in 2..Len(log) :
        (/\ log[i].op = "archive" /\ log[i-1].op = "archive"
         /\ log[i].target = log[i-1].target
         /\ log[i-1].result = "Interrupted") => log[i].result # "DuplicateKey"

\* C4: after an archive and an unarchive that both ran to completion the
\* story's live comments (identity and revisions), its commentCounts and the
\* site and cache aggregates are what they were before the archive.
C4_RoundTrip ==
    \A p \in Procs :
        (Completed(p, "unarchive") /\ NoFailedCall) =>
            LET key == proc[p].target
            IN  /\ StoryComments("live", key) = StoryCommentsAtFirst(key)
                /\ StoryComments("archive", key) = {}
                /\ stories[key].commentCounts = pre.stories[key].commentCounts
                /\ siteCounts[key] = pre.siteCounts[key]
                /\ sharedCounts[key[1]] = pre.sharedCounts[key[1]]

C4_Witness ==
    \E p \in Procs :
        /\ Completed(p, "unarchive") /\ NoFailedCall
        /\ \E i \in 1..Len(log) :
              log[i].op = "archive" /\ log[i].result = "ok"
        /\ StoryComments("live", proc[p].target) # {}

\* C5: whenever archiveStory has marked the story archived, every comment
\* action and moderation action of the story's comments is in the archive
\* store and none is in the live store.
C5_ActionsFollowComments ==
    \A p \in Procs :
        Completed(p, "archive") =>
            /\ StoryActions("live", proc[p].target) = {}
            /\ StoryActions("archive", proc[p].target)
                  = StoryActionsAtFirst(proc[p].target)

C9_AbortLeavesFlags ==
    \A p \in Procs :
        (proc[p].pc = "idle" /\ proc[p].result \in {"StoreFailure", "DuplicateKey"})
            => Flags(proc[p].target) = proc[p].startFlags

C9_Witness ==
    \E p \in Procs :
        /\ proc[p].pc = "idle" /\ proc[p].result = "StoreFailure"
        /\ siteCounts[proc[p].target] # pre.siteCounts[proc[p].target]
        /\ sharedCounts = pre.sharedCounts

C11_UnarchiveMovesEverything ==
    \A p \in Procs :
        Completed(p, "unarchive") =>
            /\ StoryComments("live", proc[p].target)
                  = StoryCommentsAtFirst(proc[p].target)
            /\ StoryComments("archive", proc[p].target) = {}
            /\ StoryActions("live", proc[p].target)
                  = StoryActionsAtFirst(proc[p].target)
            /\ StoryActions("archive", proc[p].target) = {}
            /\ ~stories[proc[p].target].isArchived

\* ------------------------------------------------------------------ comment model: editComment
\* Calls of the comment model issued so far: the clock ticks once per call.
OpsIssued == clock - 2

\* $inc of the dotized action counts: every key of the delta is added to the
\* stored counts, a key that is not stored yet starting at 0.
Inc(actionCounts, delta) ==
    [k \in DOMAIN actionCounts \cup DOMAIN delta |->
        (IF k \in DOMAIN actionCounts THEN actionCounts[k] ELSE 0)
        + (IF k \in DOMAIN delta THEN delta[k] ELSE 0)]

\* mergeCommentActionCounts: the sum of two action counts, key by key.
mergeCommentActionCounts(actionCounts, delta) ==
    [k \in DOMAIN actionCounts \cup DOMAIN delta |->
        (IF k \in DOMAIN actionCounts THEN actionCounts[k] ELSE 0)
        + (IF k \in DOMAIN delta THEN delta[k] ELSE 0)]

\* The inputs of editComment: for the comment that exists, its author or
\* another user, an edit window that is open or has expired, with and without
\* action counts; and one edit of a comment that does not exist.
EditInputs ==
    {input \in [id : {1, 9}, authorID : {"u1", "u2"}, status : {"PREMOD"},
                lastEditableCommentCreatedAt : {0, 1},
                actionCounts : {NoCounts, OneReaction}] :
        input.id = 9 =>
            /\ input.authorID = "u1"
            /\ input.lastEditableCommentCreatedAt = 0
            /\ input.actionCounts = NoCounts}

\* editComment is called: the revision is built from the input, a fresh id
\* and now.
EditCall(p, input) ==
    /\ UNCHANGED <<archiveVars, deltaVars>>
    /\ cp[p].pc = "idle"
    /\ OpsIssued < MaxOps
    /\ cp' = [cp EXCEPT ![p] =
                [NoCall EXCEPT !.pc = "editWrite", !.op = "edit", !.input = input,
                    !.revision = Revision(uuid + 1, clock, input.actionCounts, clock)]]
    /\ uuid' = uuid + 1
    /\ clock' = clock + 1
    /\ UNCHANGED <<comments, linked>>

\* Faulty filter: deleted comments are not excluded.
EditFilter_Deleted(d, tenantID, input) ==
    /\ d.id = input.id
    /\ d.tenantID = tenantID
    /\ d.authorID = input.authorID
    /\ d.status \in EDITABLE_STATUSES
    /\ d.createdAt > input.lastEditableCommentCreatedAt

\* The filter of editComment's findOneAndUpdate.
EditFilter(d, tenantID, input) ==
    /\ d.id = input.id
    /\ d.tenantID = tenantID
    /\ d.authorID = input.authorID
    /\ d.status \in EDITABLE_STATUSES
    /\ d.deletedAt = NoDate
    /\ d.createdAt > input.lastEditableCommentCreatedAt

\* Faulty update: the new revision takes the place of the last one.
EditUpdate_Replace(d, input, revision) ==
    [d EXCEPT !.status = input.status,
              !.revisions = [@ EXCEPT ![Len(@)] = revision],
              !.actionCounts = IF input.actionCounts = NoCounts THEN @
                               ELSE Inc(@, input.actionCounts)]

\* The update of editComment: $set status, $push the revision, and $inc the
\* action counts when the input has some.
EditUpdate(d, input, revision) ==
    [d EXCEPT !.status = input.status,
              !.revisions = Append(@, revision),
              !.actionCounts = IF input.actionCounts = NoCounts THEN @
                               ELSE Inc(@, input.actionCounts)]

\* Faulty option: findOneAndUpdate returns the updated document.
ReturnOriginal_False(original, updated) == updated

\* result.value under returnOriginal: true.
ReturnOriginal(original, updated) == original

\* The EditComment that editComment returns: before is result.value, after is
\* computed from it.
EditResult(value, input, revision) ==
    [before |-> value,
     after |-> [value EXCEPT
                  !.status = input.status,
                  !.actionCounts =
                      mergeCommentActionCounts(value.actionCounts, input.actionCounts),
                  !.revisions = Append(value.revisions, revision)],
     revision |-> revision]

\* The atomic conditional write.  When it matches a comment the call returns;
\* when it matches none the call goes on to read the comment.
EditWrite(p) ==
    /\ UNCHANGED <<archiveVars, deltaVars>>
    /\ cp[p].pc = "editWrite"
    /\ UNCHANGED <<clock, uuid, linked>>
    /\ LET found == {d \in comments : EditFilter(d, cp[p].tenantID, cp[p].input)}
       IN  IF found = {}
           THEN /\ cp' = [cp EXCEPT ![p].pc = "editRefetch"]
                /\ UNCHANGED <<comments, linked>>
           ELSE \E d \in found :
                  LET updated == EditUpdate(d, cp[p].input, cp[p].revision)
                  IN  /\ comments' = (comments \ {d}) \cup {updated}
                      /\ cp' = [cp EXCEPT
                            ![p].pc = "idle", ![p].result = "ok",
                            ![p].ret = EditResult(ReturnOriginal(d, updated),
                                                  cp[p].input, cp[p].revision),
                            ![p].stored = [before |-> d, after |-> updated]]

\* Faulty validateEditable: the status is tested before the author.
validateEditable_StatusFirst(comment, input) ==
    IF comment.status \notin EDITABLE_STATUSES THEN "NotEditable"
    ELSE IF comment.authorID # input.authorID THEN "AuthorMismatch"
    ELSE IF comment.createdAt <= input.lastEditableCommentCreatedAt
    THEN "EditWindowExpired"
    ELSE "none"

\* Faulty validateEditable: a comment created exactly at the limit of the edit
\* window passes.
validateEditable_AtLimit(comment, input) ==
    IF comment.authorID # input.authorID THEN "AuthorMismatch"
    ELSE IF comment.status \notin EDITABLE_STATUSES THEN "NotEditable"
    ELSE IF comment.createdAt < input.lastEditableCommentCreatedAt
    THEN "EditWindowExpired"
    ELSE "none"

\* validateEditable: the error it throws, "none" when it returns.  The two
\* plain Errors are named after their messages.
validateEditable(comment, input) ==
    IF comment.authorID # input.authorID THEN "AuthorMismatch"
    ELSE IF comment.status \notin EDITABLE_STATUSES THEN "NotEditable"
    ELSE IF comment.createdAt <= input.lastEditableCommentCreatedAt
    THEN "EditWindowExpired"
    ELSE "none"

\* retrieveComment: the comments with this tenant and id.
retrieveComment(tenantID, id) ==
    {d \in comments : d.id = id /\ d.tenantID = tenantID}

\* After a write that matched nothing: the comment is read and the error is
\* chosen.
EditRefetch(p) ==
    /\ UNCHANGED <<archiveVars, deltaVars>>
    /\ cp[p].pc = "editRefetch"
    /\ UNCHANGED <<comments, clock, uuid, linked>>
    /\ LET found == retrieveComment(cp[p].tenantID, cp[p].input.id)
       IN  IF found = {}
           THEN cp' = [cp EXCEPT ![p].pc = "idle", ![p].result = "CommentNotFound"]
           ELSE \E comment \in found :
                  cp' = [cp EXCEPT ![p].pc = "idle",
                            ![p].result =
                               IF validateEditable(comment, cp[p].input) # "none"
                               THEN validateEditable(comment, cp[p].input)
                               ELSE "EditConflict"]

\* ------------------------------------------------------------------ comment model: updateCommentStatus
\* The revision ids a moderator may hold: the first revision of the comment
\* and one that no comment has.
StatusInputs ==
    [id : {1}, revisionID : {1, 99}, status : {"REJECTED", "APPROVED"}]

UpdateStatusCall(p, input) ==
    /\ UNCHANGED <<archiveVars, deltaVars>>
    /\ cp[p].pc = "idle"
    /\ OpsIssued < MaxOps
    /\ cp' = [cp EXCEPT ![p] =
                [NoCall EXCEPT !.pc = "statusWrite", !.op = "updateStatus",
                               !.input = input]]
    /\ clock' = clock + 1
    /\ UNCHANGED <<comments, uuid, linked>>

\* Faulty filter: the revision is not asked for.
StatusFilter_AnyRevision(d, tenantID, input) ==
    /\ d.id = input.id
    /\ d.tenantID = tenantID

\* The filter of updateCommentStatus: {id, tenantID, "revisions.id": revisionID}.
StatusFilter(d, tenantID, input) ==
    /\ d.id = input.id
    /\ d.tenantID = tenantID
    /\ \E i \in 1..Len(d.revisions) : d.revisions[i].id = input.revisionID

\* updateCommentStatus: $set status on the comment that matches; null when
\* none does.
UpdateStatusWrite(p) ==
    /\ UNCHANGED <<archiveVars, deltaVars>>
    /\ cp[p].pc = "statusWrite"
    /\ UNCHANGED <<clock, uuid, linked>>
    /\ LET found == {d \in comments : StatusFilter(d, cp[p].tenantID, cp[p].input)}
       IN  IF found = {}
           THEN /\ cp' = [cp EXCEPT ![p].pc = "idle", ![p].result = "null"]
                /\ UNCHANGED <<comments, linked>>
           ELSE \E d \in found :
                  LET updated == [d EXCEPT !.status = cp[p].input.status]
                  IN  /\ comments' = (comments \ {d}) \cup {updated}
                      /\ cp' = [cp EXCEPT
                            ![p].pc = "idle", ![p].result = "ok",
                            ![p].ret = [before |-> ReturnOriginal(d, updated),
                                        after |-> [ReturnOriginal(d, updated)
                                                     EXCEPT !.status = cp[p].input.status]],
                            ![p].stored = [before |-> d, after |-> updated]]

\* Editing and moderating one comment, by concurrent callers.
EditNext ==
    \E p \in Procs :
       \/ \E input \in EditInputs : EditCall(p, input)
       \/ EditWrite(p)
       \/ EditRefetch(p)
       \/ \E input \in StatusInputs : UpdateStatusCall(p, input)
       \/ UpdateStatusWrite(p)

EditInit ==
    /\ ArchiveInit
    /\ ~stories[TheStory].isArchiving
    /\ CommentsInit
    /\ chain = <<>>

SpecEdit == EditInit /\ [][EditNext]_vars

\* ------------------------------------------------------------------ properties of editComment
\* Caller p takes the step it is waiting at.
Takes(p, pc) == cp[p].pc = pc /\ cp'[p] # cp[p]

\* The comment an edit of caller p is addressed to, whatever its state.
Addressed(p) ==
    IF cp[p].op = "edit"
    THEN {c \in comments : c.id = cp[p].input.id /\ c.tenantID = cp[p].tenantID}
    ELSE {}

EditErrors ==
    {"CommentNotFound", "AuthorMismatch", "NotEditable", "EditWindowExpired",
     "EditConflict"}

\* C12: at its atomic write an edit modifies the comment exactly when the
\* comment has the id, the tenant and the author of the call, a status among
\* NONE, PREMOD and APPROVED, no deletedAt, and a createdAt later than
\* lastEditableCommentCreatedAt; it then appends one revision, sets the status
\* and adds the action counts.  Otherwise the comment stays as it is and the
\* call ends with an error.
C12_EditWritesIffPredicate ==
    [][\A p \in Procs :
        /\ Takes(p, "editWrite") =>
             LET input == cp[p].input
                 editable ==
                    {c \in comments :
                        /\ c.id = input.id
                        /\ c.tenantID = cp[p].tenantID
                        /\ c.authorID = input.authorID
                        /\ c.status \in {"NONE", "PREMOD", "APPROVED"}
                        /\ c.deletedAt = NoDate
                        /\ c.createdAt > input.lastEditableCommentCreatedAt}
             IN  IF editable # {}
                 THEN \E c \in editable : \E e \in comments' :
                        /\ comments' = (comments \ {c}) \cup {e}
                        /\ e = [c EXCEPT !.status = e.status,
                                         !.revisions = e.revisions,
                                         !.actionCounts = e.actionCounts]
                        /\ e.status = input.status
                        /\ Len(e.revisions) = Len(c.revisions) + 1
                        /\ SubSeq(e.revisions, 1, Len(c.revisions)) = c.revisions
                        /\ e.revisions[Len(e.revisions)].body = cp[p].revision.body
                        /\ DOMAIN e.actionCounts =
                              DOMAIN c.actionCounts \cup DOMAIN input.actionCounts
                        /\ \A k \in DOMAIN e.actionCounts :
                              e.actionCounts[k] =
                                 (IF k \in DOMAIN c.actionCounts
                                  THEN c.actionCounts[k] ELSE 0)
                                 + (IF k \in DOMAIN input.actionCounts
                                    THEN input.actionCounts[k] ELSE 0)
                        /\ cp'[p].result = "ok"
                 ELSE /\ comments' = comments
                      /\ cp'[p].pc = "editRefetch"
        /\ Takes(p, "editRefetch") =>
             /\ comments' = comments
             /\ cp'[p].result \in EditErrors
    ]_vars

\* An edit with action counts went through on a comment that had one revision.
C12_Witness ==
    \E p \in Procs : \E c \in comments :
        /\ cp[p].op = "edit"
        /\ cp[p].result = "ok"
        /\ c.id = cp[p].input.id
        /\ Len(c.revisions) = 2
        /\ c.status = "PREMOD"
        /\ c.actionCounts = OneReaction

\* C13: when the write of an edit matched nothing and the comment exists, the
\* error is AuthorMismatch if the author differs, else NotEditable if the
\* status is not editable, else EditWindowExpired if createdAt is not later
\* than lastEditableCommentCreatedAt, else EditConflict; it is never a success.
C13_FailureClassifiedInOrder ==
    [][\A p \in Procs : Takes(p, "editRefetch") =>
          \A c \in Addressed(p) :
             cp'[p].result =
                IF c.authorID # cp[p].input.authorID THEN "AuthorMismatch"
                ELSE IF c.status \notin {"NONE", "PREMOD", "APPROVED"}
                THEN "NotEditable"
                ELSE IF c.createdAt <= cp[p].input.lastEditableCommentCreatedAt
                THEN "EditWindowExpired"
                ELSE "EditConflict"
    ]_vars

\* An edit by another user of a rejected comment after the edit window ended
\* with AuthorMismatch.
C13_Witness ==
    \E p \in Procs : \E c \in Addressed(p) :
        /\ cp[p].op = "edit"
        /\ cp[p].result = "AuthorMismatch"
        /\ c.status = "REJECTED"
        /\ c.createdAt <= cp[p].input.lastEditableCommentCreatedAt

\* C14 as stated: an edit of a comment whose status is REJECTED ends with
\* NotEditable for every author, createdAt and deletedAt.
C14_RejectedAlwaysNotEditable ==
    [][\A p \in Procs : Takes(p, "editRefetch") =>
          \A c \in Addressed(p) :
             c.status = "REJECTED" => cp'[p].result = "NotEditable"
    ]_vars

\* C14 amended: an edit of a comment whose status is REJECTED never modifies
\* it; it ends with NotEditable for every createdAt and deletedAt when the
\* caller is the author, and with AuthorMismatch when it is not.
C14_RejectedNotEditableForAuthor ==
    [][\A p \in Procs : \A c \in Addressed(p) : c.status = "REJECTED" =>
          /\ Takes(p, "editWrite") =>
                comments' = comments /\ cp'[p].pc = "editRefetch"
          /\ Takes(p, "editRefetch") =>
                cp'[p].result = IF c.authorID = cp[p].input.authorID
                                THEN "NotEditable" ELSE "AuthorMismatch"
    ]_vars

\* The author's edit of a rejected, deleted comment after the edit window
\* ended with NotEditable.
C14_Witness ==
    \E p \in Procs : \E c \in Addressed(p) :
        /\ cp[p].op = "edit"
        /\ cp[p].result = "NotEditable"
        /\ c.status = "REJECTED"
        /\ c.authorID = cp[p].input.authorID
        /\ c.deletedAt # NoDate
        /\ c.createdAt <= cp[p].input.lastEditableCommentCreatedAt

\* C15 as stated: an edit of a comment whose createdAt is not later than
\* lastEditableCommentCreatedAt ends with EditWindowExpired for every author,
\* status and deletedAt.
C15_ExpiredAlwaysWindowExpired ==
    [][\A p \in Procs : Takes(p, "editRefetch") =>
          \A c \in Addressed(p) :
             c.createdAt <= cp[p].input.lastEditableCommentCreatedAt =>
                cp'[p].result = "EditWindowExpired"
    ]_vars

\* C15 amended: an edit of a comment whose createdAt is not later than
\* lastEditableCommentCreatedAt never modifies it; it ends with
\* EditWindowExpired for every deletedAt when the caller is the author and the
\* status is editable, with AuthorMismatch when the caller is not the author,
\* and with NotEditable when the author's comment has another status.
C15_ExpiredForAuthorOfEditable ==
    [][\A p \in Procs : \A c \in Addressed(p) :
          c.createdAt <= cp[p].input.lastEditableCommentCreatedAt =>
             /\ Takes(p, "editWrite") =>
                   comments' = comments /\ cp'[p].pc = "editRefetch"
             /\ Takes(p, "editRefetch") =>
                   cp'[p].result =
                      IF c.authorID # cp[p].input.authorID THEN "AuthorMismatch"
                      ELSE IF c.status \in {"NONE", "PREMOD", "APPROVED"}
                      THEN "EditWindowExpired"
                      ELSE "NotEditable"
    ]_vars

\* The author's edit of a deleted comment with an editable status after the
\* edit window ended with EditWindowExpired.
C15_Witness ==
    \E p \in Procs : \E c \in Addressed(p) :
        /\ cp[p].op = "edit"
        /\ cp[p].result = "EditWindowExpired"
        /\ c.authorID = cp[p].input.authorID
        /\ c.status \in {"NONE", "PREMOD", "APPROVED"}
        /\ c.deletedAt # NoDate
        /\ c.createdAt = cp[p].input.lastEditableCommentCreatedAt

\* C19: the revisions of every comment are in the order of their createdAt,
\* never decreasing, also when edits run concurrently, each with its own now.
C19_RevisionsOrderedByCreatedAt ==
    \A c \in comments : \A i, j \in 1..Len(c.revisions) :
        i < j => c.revisions[i].createdAt <= c.revisions[j].createdAt

\* C20: the before that a successful edit returns is the comment as it was
\* stored immediately before the write, and the after it returns is the
\* comment as stored immediately after it, in status, action counts and
\* revisions, whatever other callers do meanwhile.
C20_BeforeAndAfterAreTheStoredImages ==
    \A p \in Procs : (cp[p].op = "edit" /\ cp[p].result = "ok") =>
        /\ cp[p].ret.before = cp[p].stored.before
        /\ cp[p].ret.after = cp[p].stored.after
        /\ cp[p].ret.after.status = cp[p].input.status
        /\ cp[p].ret.after.revisions =
              Append(cp[p].ret.before.revisions, cp[p].revision)

\* An edit with action counts succeeded on a comment that another caller
\* had moderated or edited before.
C20_Witness ==
    \E p, q \in Procs :
        /\ p # q
        /\ cp[p].op = "edit"
        /\ cp[p].result = "ok"
        /\ cp[q].result = "ok"
        /\ cp[p].stored.before = cp[q].stored.after
        /\ cp[p].ret.after.actionCounts # cp[p].ret.before.actionCounts

\* ------------------------------------------------------------------ comment model: the other mutators
\* A call that is a single operation of the store, from its call to its
\* return.
Atomic(p, op, input, result) ==
    /\ UNCHANGED <<archiveVars, deltaVars>>
    /\ cp[p].pc = "idle"
    /\ OpsIssued < MaxOps
    /\ cp' = [cp EXCEPT ![p] =
                [NoCall EXCEPT !.op = op, !.input = input, !.result = result]]
    /\ clock' = clock + 1

\* A call that is a single findOneAndUpdate with returnOriginal: false and
\* that matched: the updated document is returned.
Wrote(p, op, input, original, updated) ==
    /\ UNCHANGED <<archiveVars, deltaVars>>
    /\ cp[p].pc = "idle"
    /\ OpsIssued < MaxOps
    /\ cp' = [cp EXCEPT ![p] =
                [NoCall EXCEPT !.op = op, !.input = input, !.result = "ok",
                               !.ret = updated,
                               !.stored = [before |-> original, after |-> updated]]]
    /\ clock' = clock + 1

\* A call that goes on after its first operation of the store.
Begin(p, op, input, pc) ==
    /\ UNCHANGED <<archiveVars, deltaVars>>
    /\ cp[p].pc = "idle"
    /\ OpsIssued < MaxOps
    /\ cp' = [cp EXCEPT ![p] = [NoCall EXCEPT !.op = op, !.input = input, !.pc = pc]]
    /\ clock' = clock + 1

\* Top-level comments and replies to comment 1.
CreateInputs ==
    [storyID : {"s1"}, authorID : {"u1"}, parentID : {0, 1}, status : {"NONE"}]

\* createComment: the defaults, then the input, then the action counts; one
\* insertOne.
createComment(p, input) ==
    LET revision == Revision(uuid + 1, clock, NoCounts, clock)
        comment ==
           [tenantID |-> "t1", id |-> uuid + 2, storyID |-> input.storyID,
            authorID |-> input.authorID, parentID |-> input.parentID,
            status |-> input.status, actionCounts |-> NoCounts,
            childIDs |-> <<>>, childCount |-> 0, tags |-> <<>>,
            revisions |-> <<revision>>, createdAt |-> clock, deletedAt |-> NoDate]
    IN  /\ Atomic(p, "create", input, "ok")
        /\ comments' = comments \cup {comment}
        /\ uuid' = uuid + 2
        /\ UNCHANGED linked

\* A parent that exists or one that does not; the ids of two children.
LinkInputs == [parentID : {1, 9}, childID : {7, 8}]

\* Faulty update: the child is pushed and childCount is left as it is.
Linked_NoInc(d, childID) ==
    [d EXCEPT !.childIDs = Append(@, childID)]

\* The update of pushChildCommentIDOntoParent: $push childIDs, $inc childCount.
Linked(d, childID) ==
    [d EXCEPT !.childIDs = Append(@, childID), !.childCount = @ + 1]

\* pushChildCommentIDOntoParent: one findOneAndUpdate on {tenantID, id}.
pushChildCommentIDOntoParent(p, input) ==
    LET found == retrieveComment("t1", input.parentID)
    IN  /\ UNCHANGED uuid
        /\ IF found = {}
           THEN /\ Atomic(p, "linkChild", input, "null")
                /\ UNCHANGED <<comments, linked>>
           ELSE \E d \in found :
                  /\ Atomic(p, "linkChild", input, "ok")
                  /\ comments' = (comments \ {d}) \cup {Linked(d, input.childID)}
                  /\ linked' = Append(linked, <<input.parentID, input.childID>>)

\* A revision of the comment, a revision no comment has, a missing comment.
CountInputs ==
    {[id |-> 1, revisionID |-> 1, actionCounts |-> OneReaction],
     [id |-> 1, revisionID |-> 99, actionCounts |-> OneReaction],
     [id |-> 9, revisionID |-> 1, actionCounts |-> OneReaction]}

\* The update of updateCommentActionCounts: $inc on the comment's counts and
\* on the counts of the revisions the array filter selects.
Counted(d, input) ==
    [d EXCEPT
       !.actionCounts = Inc(@, input.actionCounts),
       !.revisions =
          [i \in 1..Len(@) |->
              IF @[i].id = input.revisionID
              THEN [@[i] EXCEPT !.actionCounts = Inc(@, input.actionCounts)]
              ELSE @[i]]]

\* updateCommentActionCounts: one findOneAndUpdate on {id, tenantID}; the
\* error is thrown when no comment matched.
updateCommentActionCounts(p, input) ==
    LET found == retrieveComment("t1", input.id)
    IN  /\ UNCHANGED <<uuid, linked>>
        /\ IF found = {}
           THEN /\ Atomic(p, "updateActionCounts", input, "CommentRevisionNotFound")
                /\ UNCHANGED comments
           ELSE \E d \in found :
                  /\ Wrote(p, "updateActionCounts", input, d, Counted(d, input))
                  /\ comments' = (comments \ {d}) \cup {Counted(d, input)}

\* removeStoryComments: deleteMany on {tenantID, storyID}.
removeStoryComments(p, storyID) ==
    /\ Atomic(p, "removeStoryComments", [storyID |-> storyID], "ok")
    /\ comments' = {d \in comments : ~(d.tenantID = "t1" /\ d.storyID = storyID)}
    /\ UNCHANGED <<uuid, linked>>

\* mergeManyCommentStories: updateMany, $set storyID.
mergeManyCommentStories(p, newStoryID, oldStoryIDs) ==
    /\ Atomic(p, "mergeManyCommentStories",
              [newStoryID |-> newStoryID, oldStoryIDs |-> oldStoryIDs], "ok")
    /\ comments' = {IF d.tenantID = "t1" /\ d.storyID \in oldStoryIDs
                    THEN [d EXCEPT !.storyID = newStoryID] ELSE d : d \in comments}
    /\ UNCHANGED <<uuid, linked>>

\* The tag of a call: its type and the time it was made.
CommentTag(type, now) == [type |-> type, createdAt |-> now]

TagInputs == [id : {1, 9}, type : {"FEATURED"}]

\* tags: {$not: {$eq: {type}}}: no element of tags is the document {type}.
NotTagged(d, type) ==
    \A i \in 1..Len(d.tags) : d.tags[i] # [type |-> type]

\* addCommentTag is called.
AddTagCall(p, input) ==
    /\ Begin(p, "addTag", [id |-> input.id, tag |-> CommentTag(input.type, clock)],
             "addTagWrite")
    /\ UNCHANGED <<comments, uuid, linked>>

\* addCommentTag's findOneAndUpdate: $push the tag.
AddTagWrite(p) ==
    /\ UNCHANGED <<archiveVars, deltaVars>>
    /\ cp[p].pc = "addTagWrite"
    /\ UNCHANGED <<clock, uuid, linked>>
    /\ LET found == {d \in retrieveComment(cp[p].tenantID, cp[p].input.id) :
                        NotTagged(d, cp[p].input.tag.type)}
       IN  IF found = {}
           THEN /\ cp' = [cp EXCEPT ![p].pc = "addTagRefetch"]
                /\ UNCHANGED comments
           ELSE \E d \in found :
                  /\ comments' = (comments \ {d}) \cup
                                    {[d EXCEPT !.tags = Append(@, cp[p].input.tag)]}
                  /\ cp' = [cp EXCEPT ![p].pc = "idle", ![p].result = "ok"]

\* addCommentTag after a write that matched nothing.
AddTagRefetch(p) ==
    /\ UNCHANGED <<archiveVars, deltaVars>>
    /\ cp[p].pc = "addTagRefetch"
    /\ UNCHANGED <<comments, clock, uuid, linked>>
    /\ LET found == retrieveComment(cp[p].tenantID, cp[p].input.id)
       IN  IF found = {}
           THEN cp' = [cp EXCEPT ![p].pc = "idle", ![p].result = "CommentNotFound"]
           ELSE \E comment \in found :
                  cp' = [cp EXCEPT ![p].pc = "idle",
                            ![p].result =
                               IF \E i \in 1..Len(comment.tags) :
                                     comment.tags[i].type = cp[p].input.tag.type
                               THEN "ok" ELSE "Error"]

\* removeCommentTag is called.
RemoveTagCall(p, input) ==
    /\ Begin(p, "removeTag", input, "removeTagWrite")
    /\ UNCHANGED <<comments, uuid, linked>>

\* removeCommentTag's findOneAndUpdate: $pull the tags of the type.
RemoveTagWrite(p) ==
    /\ UNCHANGED <<archiveVars, deltaVars>>
    /\ cp[p].pc = "removeTagWrite"
    /\ UNCHANGED <<clock, uuid, linked>>
    /\ LET found == retrieveComment(cp[p].tenantID, cp[p].input.id)
       IN  IF found = {}
           THEN /\ cp' = [cp EXCEPT ![p].pc = "removeTagRefetch"]
                /\ UNCHANGED comments
           ELSE \E d \in found :
                  /\ comments' = (comments \ {d}) \cup
                        {[d EXCEPT !.tags =
                             SelectSeq(@, LAMBDA t : t.type # cp[p].input.type)]}
                  /\ cp' = [cp EXCEPT ![p].pc = "idle", ![p].result = "ok"]

\* removeCommentTag after a write that matched nothing.
RemoveTagRefetch(p) ==
    /\ UNCHANGED <<archiveVars, deltaVars>>
    /\ cp[p].pc = "removeTagRefetch"
    /\ UNCHANGED <<comments, clock, uuid, linked>>
    /\ cp' = [cp EXCEPT ![p].pc = "idle",
                 ![p].result =
                    IF retrieveComment(cp[p].tenantID, cp[p].input.id) = {}
                    THEN "CommentNotFound" ELSE "Error"]

\* The author's edits of the comment inside the edit window.
AuthorEdits ==
    {input \in EditInputs :
        /\ input.id = 1
        /\ input.authorID = "u1"
        /\ input.lastEditableCommentCreatedAt = 0}

\* A moderator's decisions on the first revision of the comment.
Moderations == {input \in StatusInputs : input.revisionID = 1}

\* Every mutator of the comments collection, called by concurrent callers.
CommentsNext ==
    \E p \in Procs :
       \/ \E input \in CreateInputs : createComment(p, input)
       \/ \E input \in LinkInputs : pushChildCommentIDOntoParent(p, input)
       \/ \E input \in AuthorEdits : EditCall(p, input)
       \/ EditWrite(p)
       \/ EditRefetch(p)
       \/ \E input \in Moderations : UpdateStatusCall(p, input)
       \/ UpdateStatusWrite(p)
       \/ \E input \in CountInputs : updateCommentActionCounts(p, input)
       \/ \E input \in TagInputs : AddTagCall(p, input)
       \/ AddTagWrite(p)
       \/ AddTagRefetch(p)
       \/ \E input \in TagInputs : RemoveTagCall(p, input)
       \/ RemoveTagWrite(p)
       \/ RemoveTagRefetch(p)
       \/ removeStoryComments(p, "s1")
       \/ mergeManyCommentStories(p, "s2", {"s1"})

SpecComments == EditInit /\ [][CommentsNext]_vars

\* ------------------------------------------------------------------ properties of the comments collection
\* The children that completed calls have pushed onto a parent, oldest first.
LinkedTo(parentID) == SelectSeq(linked, LAMBDA e : e[1] = parentID)

\* How often an id occurs in a sequence of ids.
Occurrences(ids, id) == Cardinality({i \in 1..Len(ids) : ids[i] = id})

\* C16: after N calls of linkChild on a parent, concurrent or not, the
\* parent's childCount is N, its childIDs has N entries, and each child id is
\* there exactly as often as it was linked, once when the ids are distinct.
C16_LinkChildCountsEveryCall ==
    \A c \in comments : c.tenantID = "t1" =>
        LET calls == LinkedTo(c.id)
        IN  /\ c.childCount = Len(calls)
            /\ Len(c.childIDs) = Len(calls)
            /\ \A id \in {7, 8} :
                  Occurrences(c.childIDs, id) =
                     Cardinality({i \in 1..Len(calls) : calls[i][2] = id})

\* Two callers have each linked a child of their own to the same parent.
C16_Witness ==
    \E c \in comments :
        /\ \A p \in Procs : cp[p].op = "linkChild" /\ cp[p].result = "ok"
        /\ cp[1].input.childID # cp[2].input.childID
        /\ c.childCount = 2
        /\ Occurrences(c.childIDs, 7) = 1
        /\ Occurrences(c.childIDs, 8) = 1

C18_RevisionsAppendOnly ==
    [][/\ \A c \in comments : Len(c.revisions) >= 1
       /\ \A e \in comments' : Len(e.revisions) >= 1
       /\ \A c \in comments : \A e \in comments' :
             (e.tenantID = c.tenantID /\ e.id = c.id) =>
                /\ Len(e.revisions) >= Len(c.revisions)
                /\ \A i \in 1..Len(c.revisions) :
                      /\ e.revisions[i].id = c.revisions[i].id
                      /\ e.revisions[i].body = c.revisions[i].body
                      /\ e.revisions[i].metadata = c.revisions[i].metadata
                      /\ e.revisions[i].createdAt = c.revisions[i].createdAt
                /\ Len(e.revisions) > Len(c.revisions) =>
                      /\ Len(e.revisions) = Len(c.revisions) + 1
                      /\ \E p \in Procs :
                            /\ Takes(p, "editWrite")
                            /\ cp'[p].result = "ok"
                            /\ e.revisions[Len(e.revisions)] = cp[p].revision
    ]_vars

\* A comment was edited and the action counts of its first revision were
\* updated.
C18_Witness ==
    \E c \in comments :
        /\ Len(c.revisions) = 2
        /\ c.revisions[1].actionCounts = OneReaction

\* ------------------------------------------------------------------ properties of updateCommentStatus
\* The ids of the revisions of a comment.
RevisionIDs(c) == {c.revisions[i].id : i \in 1..Len(c.revisions)}

\* The comment a status update of caller p is addressed to.
Moderated(p) ==
    IF cp[p].op = "updateStatus"
    THEN {c \in comments : c.id = cp[p].input.id /\ c.tenantID = cp[p].tenantID}
    ELSE {}

\* C21: updateStatus returns null and changes no comment when no comment of
\* the tenant with the id has a revision with the revision id; otherwise it
\* changes the status of that comment and nothing else, and returns the
\* document as it was and that document with the status replaced.
C21_UpdateStatusNeedsTheRevision ==
    [][\A p \in Procs : Takes(p, "statusWrite") =>
          LET input == cp[p].input
              holders == {c \in Moderated(p) : input.revisionID \in RevisionIDs(c)}
          IN  IF holders = {}
              THEN /\ comments' = comments
                   /\ cp'[p].result = "null"
              ELSE \E c \in holders :
                     /\ comments' = (comments \ {c}) \cup
                                       {[c EXCEPT !.status = input.status]}
                     /\ cp'[p].result = "ok"
                     /\ cp'[p].ret.before = c
                     /\ cp'[p].ret.after = [c EXCEPT !.status = input.status]
    ]_vars

\* One caller's status update went through and changed the status, the
\* other's named a revision the comment does not have and returned null.
C21_Witness ==
    \E p, q \in Procs :
        /\ cp[p].op = "updateStatus"
        /\ cp[p].result = "ok"
        /\ cp[p].ret.before.status # cp[p].ret.after.status
        /\ cp[q].op = "updateStatus"
        /\ cp[q].result = "null"
        /\ Moderated(q) # {}

\* C22: when an edit has appended a revision after revision R, a status
\* update that names R changes no comment and returns null.
C22_StaleDecisionIsRefused ==
    [][\A p \in Procs : Takes(p, "statusWrite") =>
          \A c \in Moderated(p) :
             (/\ cp[p].input.revisionID \in RevisionIDs(c)
              /\ c.revisions[Len(c.revisions)].id # cp[p].input.revisionID) =>
                /\ comments' = comments
                /\ cp'[p].result = "null"
    ]_vars

\* ------------------------------------------------------------------ action counts
\* A delta that takes a reaction away.
MinusOneReaction == [k \in {"REACTION"} |-> -1]

\* The deltas updateCommentActionCounts is called with: a reaction added, a
\* reaction removed; on a revision of the comment, on a revision no comment
\* has, on a comment that does not exist.
DeltaInputs ==
    CountInputs \cup
    {[id |-> 1, revisionID |-> 1, actionCounts |-> MinusOneReaction]}

\* The author's edits inside the edit window, with the action counts the
\* caller hands in.
DeltaEdits ==
    AuthorEdits \cup
    {[id |-> 1, authorID |-> "u1", status |-> "PREMOD",
      lastEditableCommentCreatedAt |-> 0, actionCounts |-> MinusOneReaction]}

\* The mutators of action counts, called by concurrent callers.
CountsNext ==
    \E p \in Procs :
       \/ \E input \in CreateInputs : createComment(p, input)
       \/ \E input \in DeltaEdits : EditCall(p, input)
       \/ EditWrite(p)
       \/ EditRefetch(p)
       \/ \E input \in DeltaInputs : updateCommentActionCounts(p, input)

SpecCounts == EditInit /\ [][CountsNext]_vars

\* The count of an action type, 0 when the type has no entry.
CountOf(actionCounts, k) ==
    IF k \in DOMAIN actionCounts THEN actionCounts[k] ELSE 0

\* The sum of the counts of an action type over the first n revisions.
RECURSIVE RevisionSum(_, _, _)
RevisionSum(revisions, k, n) ==
    IF n = 0 THEN 0
    ELSE RevisionSum(revisions, k, n - 1) + CountOf(revisions[n].actionCounts, k)

\* C23: a call of updateActionCounts with a revision id that no revision of
\* the comment has fails with RevisionNotFound and leaves the counts of the
\* comment and of its revisions as they were; so a call that returned named
\* a revision of the comment it updated.
C23_UnknownRevisionIsRefused ==
    \A p \in Procs : (cp[p].op = "updateActionCounts" /\ cp[p].result = "ok") =>
        cp[p].input.revisionID \in RevisionIDs(cp[p].stored.before)

\* C24: for every comment and action type the comment's count is the sum of
\* the counts of its revisions, after any create, edit and updateActionCounts
\* calls in any interleaving.
C24_CommentCountsAreRevisionSums ==
    \A c \in comments : \A k \in {"REACTION"} :
        CountOf(c.actionCounts, k) = RevisionSum(c.revisions, k, Len(c.revisions))

\* C25: every entry of a comment's action counts is at least 0 in every
\* state, and an edit that succeeded decreased no entry.
C25_CountsNeverNegative ==
    /\ \A c \in comments : \A k \in DOMAIN c.actionCounts : c.actionCounts[k] >= 0
    /\ \A p \in Procs : (cp[p].op = "edit" /\ cp[p].result = "ok") =>
          \A k \in DOMAIN cp[p].stored.before.actionCounts :
             CountOf(cp[p].stored.after.actionCounts, k)
                >= cp[p].stored.before.actionCounts[k]

\* ------------------------------------------------------------------ properties of the tags
\* C26: addTag of a type the comment already has leaves its tags as they are,
\* so after any addTag and removeTag calls, concurrent ones with the same type
\* included, a comment has at most one tag of each type.
C26_OneTagOfEachType ==
    \A c \in comments : \A i, j \in 1..Len(c.tags) :
        c.tags[i].type = c.tags[j].type => i = j

\* ------------------------------------------------------------------ getCommentCounts on its own
\* Calls of getCommentCounts in a row, each on the result of the one before.
MaxNegations == 2

\* The commentCounts of a story: with no action, one action or two actions;
\* with every status or only some; with counts that are 0 and counts that are
\* not.
CountsInputs ==
    [action : {[k \in {} |-> 0], [k \in {"REACTION"} |-> 2],
               [k \in {"REACTION", "FLAG"} |-> IF k = "FLAG" THEN 0 ELSE 1]},
     moderationQueue :
        [total : {0, 3},
         queues : {[q \in QueueNames |-> 0],
                   [q \in QueueNames |-> IF q = "reported" THEN 2 ELSE 1]}],
     status : {[s \in Statuses |-> IF s = "APPROVED" THEN 2 ELSE 0],
               [s \in {"APPROVED", "REJECTED"} |-> 1],
               [s \in Statuses |-> 1]}]

DeltaInit ==
    /\ ArchiveInit
    /\ ~stories[TheStory].isArchiving
    /\ CommentsInit
    /\ \A c \in comments : c.status = "NONE" /\ c.deletedAt = NoDate
    /\ \E commentCounts \in CountsInputs :
          chain = <<[negate |-> FALSE, counts |-> commentCounts]>>

\* getCommentCounts({story, negate}) on a story whose commentCounts are the
\* counts computed last.
ComputeDelta(negate) ==
    /\ Len(chain) <= MaxNegations
    /\ chain' = Append(chain,
                       [negate |-> negate,
                        counts |-> getCommentCounts(chain[Len(chain)].counts, negate)])
    /\ UNCHANGED <<archiveVars, commentVars>>

DeltaNext == \E negate \in BOOLEAN : ComputeDelta(negate)

SpecDelta == DeltaInit /\ [][DeltaNext]_vars

\* Every leaf of the counts a is in the counts b with the same value.
SameLeaves(a, b) ==
    /\ \A k \in DOMAIN a.action :
          k \in DOMAIN b.action /\ b.action[k] = a.action[k]
    /\ b.moderationQueue.total = a.moderationQueue.total
    /\ \A q \in DOMAIN a.moderationQueue.queues :
          /\ q \in DOMAIN b.moderationQueue.queues
          /\ b.moderationQueue.queues[q] = a.moderationQueue.queues[q]
    /\ \A s \in DOMAIN a.status :
          s \in DOMAIN b.status /\ b.status[s] = a.status[s]

\* C27: getCommentCounts with negate = true, applied to counts and then to
\* its own result, gives the counts back: every action total, the queue
\* total, every per-queue total and every status total has its first value,
\* and no leaf of the first counts is missing.
C27_DoubleNegationIsIdentity ==
    \A i \in 1..Len(chain) :
        (i + 2 <= Len(chain) /\ chain[i + 1].negate /\ chain[i + 2].negate) =>
            SameLeaves(chain[i].counts, chain[i + 2].counts)

\* Counts with two actions, all queues and only two statuses, none of them
\* all zero, have been negated twice.
C27_Witness ==
    /\ Len(chain) = 3
    /\ chain[2].negate
    /\ chain[3].negate
    /\ DOMAIN chain[1].counts.action = {"REACTION", "FLAG"}
    /\ chain[1].counts.moderationQueue.queues["reported"] = 2
    /\ DOMAIN chain[1].counts.status = {"APPROVED", "REJECTED"}
    /\ chain[2].counts.status["APPROVED"] = -1

\* ------------------------------------------------------------------ concurrent counter deltas
\* The delta of one moderation decision: a comment leaves the pending queue
\* and goes from PREMOD to APPROVED.
CommentDelta ==
    [action |-> [k \in {} |-> 0],
     moderationQueue |->
        [total |-> -1,
         queues |-> [q \in QueueNames |-> IF q = "pending" THEN -1 ELSE 0]],
     status |-> [s \in Statuses |->
                    IF s = "PREMOD" THEN -1 ELSE IF s = "APPROVED" THEN 1 ELSE 0]]

\* A moderation decision on a comment of the story starts to apply its delta.
ModerateCall(p) ==
    /\ proc[p].pc = "idle"
    /\ Len(log) + Cardinality(InProgress) < MaxCalls
    /\ proc' = [proc EXCEPT ![p] =
                  [Idle EXCEPT !.pc = "moderateSite", !.op = "moderate",
                               !.target = TheStory,
                               !.startFlags = Flags(TheStory)]]
    /\ UNCHANGED <<stories, db, siteCounts, sharedCounts, log, pre>>
    /\ UNCHANGED <<commentVars, deltaVars>>

\* The site aggregate is incremented by the delta of the decision.
ModerateSite(p) ==
    /\ proc[p].pc = "moderateSite"
    /\ siteCounts' = [siteCounts EXCEPT ![proc[p].target] =
                         IncCounts(@, CommentDelta)]
    /\ proc' = [proc EXCEPT ![p].pc = "moderateShared"]
    /\ UNCHANGED <<stories, db, sharedCounts, log, pre>>
    /\ UNCHANGED <<commentVars, deltaVars>>

\* The cache aggregate is incremented by the delta of the decision.
ModerateShared(p) ==
    /\ proc[p].pc = "moderateShared"
    /\ sharedCounts' = [sharedCounts EXCEPT ![proc[p].target[1]] =
                           IncCounts(@, CommentDelta)]
    /\ Finish(p, "ok")
    /\ UNCHANGED <<stories, db, siteCounts, pre>>
    /\ UNCHANGED <<commentVars, deltaVars>>

\* What a caller may call: every caller archives, caller 1 also unarchives.
OpsOf(p) == IF p \in SeqProcs THEN {"archive", "unarchive"} ELSE {"archive"}

\* Archive, unarchive and moderation by concurrent callers, with a store
\* that does not fail.
CountersNext ==
    \E p \in Procs :
       \/ \E o \in OpsOf(p) : Call(p, o, TheStory)
       \/ FindStory(p)
       \/ HasNext(p)
       \/ BulkInsert(p)
       \/ BulkDelete(p)
       \/ FinalDelete(p)
       \/ UpdateSiteCounts(p)
       \/ UpdateSharedCounts(p)
       \/ MarkStory(p)
       \/ ModerateCall(p)
       \/ ModerateSite(p)
       \/ ModerateShared(p)

CountersInit ==
    /\ ArchiveInit
    /\ ~stories[TheStory].isArchiving
    /\ CommentsInit
    /\ \A c \in comments : c.status = "NONE" /\ c.deletedAt = NoDate
    /\ chain = <<>>

SpecCounters == CountersInit /\ [][CountersNext]_vars

\* The delta a call applies: the story's counts, negated by archive and as
\* they are by unarchive; the delta of the decision for a moderation.
DeltaOf(o, key) ==
    IF o = "moderate" THEN CommentDelta
    ELSE getCommentCounts(stories[key].commentCounts, o = "archive")

\* The sum of the deltas of the first n ended calls that ran to their end on
\* one of the keys.
RECURSIVE EndedSum(_, _)
EndedSum(n, keys) ==
    IF n = 0 THEN createEmptyRelatedCommentCounts
    ELSE IncCounts(EndedSum(n - 1, keys),
                   IF log[n].result = "ok" /\ log[n].target \in keys
                   THEN DeltaOf(log[n].op, log[n].target)
                   ELSE createEmptyRelatedCommentCounts)

\* The sum of the deltas of the callers ps that are at one of the positions
\* pcs of a call on one of the keys.
RECURSIVE FlyingSum(_, _, _)
FlyingSum(ps, keys, pcs) ==
    IF ps = {} THEN createEmptyRelatedCommentCounts
    ELSE LET p == CHOOSE q \in ps : TRUE
         IN  IncCounts(FlyingSum(ps \ {p}, keys, pcs),
                       IF proc[p].pc \in pcs /\ proc[p].target \in keys
                       THEN DeltaOf(proc[p].op, proc[p].target)
                       ELSE createEmptyRelatedCommentCounts)

NumPaged == 4

\* Comment i of the paged set: its replies and reactions fall and rise with
\* i so that some comments have the same count; its createdAt is drawn.
PagedComment(i, createdAt) ==
    [FirstComment("t1", "NONE", NoDate) EXCEPT
        !.id = 10 + i,
        !.createdAt = createdAt,
        !.childCount = (NumPaged - i + 1) \div 2,
        !.childIDs = [j \in 1..((NumPaged - i + 1) \div 2) |-> 100 * i + j],
        !.actionCounts = [k \in {"REACTION"} |-> i \div 2],
        !.revisions = <<Revision(10 + i, "b0", NoCounts, createdAt)>>]

PagesInit ==
    /\ ArchiveInit
    /\ ~stories[TheStory].isArchiving
    /\ chain = <<>>
    /\ clock = 3
    /\ uuid = 10 + NumPaged
    /\ cp = [p \in Procs |-> NoCall]
    /\ linked = <<>>
    /\ \E createdAt \in [1..NumPaged -> {1, 2}] :
          comments = {PagedComment(i, createdAt[i]) : i \in 1..NumPaged}
                     \cup {FirstComment("t2", "NONE", NoDate)}

\* The value a connection is ordered by: childCount for REPLIES_DESC,
\* actionCounts.REACTION for REACTION_DESC.
OrderKey(orderBy, c) ==
    IF orderBy = "REPLIES_DESC" THEN c.childCount
    ELSE IF "REACTION" \in DOMAIN c.actionCounts THEN c.actionCounts["REACTION"]
    ELSE 0

\* orderBy({count: -1, createdAt: -1}) puts c before d.
Before(orderBy, c, d) ==
    \/ OrderKey(orderBy, c) > OrderKey(orderBy, d)
    \/ OrderKey(orderBy, c) = OrderKey(orderBy, d) /\ c.createdAt > d.createdAt

\* The orders the sort may return the documents in: every order that agrees
\* with the two sort keys; documents equal in both come in any order.
RECURSIVE Orderings(_, _)
Orderings(orderBy, docs) ==
    IF docs = {} THEN {<<>>}
    ELSE UNION {{<<d>> \o rest : rest \in Orderings(orderBy, docs \ {d})} :
                  d \in {d \in docs : \A e \in docs : ~Before(orderBy, e, d)}}

\* cursorGetterFactory for REPLIES_DESC and REACTION_DESC: the cursor of the
\* node at index (from 0) of the page.
cursorGetter(after, index) == after + index + 1

\* applyInputToQuery and resolveConnection: the sorted documents of the
\* tenant, after the first `after` of them, cut to `first`, each with its
\* cursor.
Page(order, input) ==
    LET rest == SubSeq(order, input.after + 1, Len(order))
        nodes == SubSeq(rest, 1, IF Len(rest) < input.first THEN Len(rest)
                                 ELSE input.first)
        cursors == [i \in 1..Len(nodes) |-> cursorGetter(input.after, i - 1)]
    IN  [nodes |-> [i \in 1..Len(nodes) |-> nodes[i].id],
         cursors |-> cursors,
         hasNextPage |-> Len(rest) > input.first,
         endCursor |-> IF Len(nodes) > 0 THEN cursors[Len(nodes)] ELSE 0]

\* retrieveCommentConnection with the input of caller p; the pages of the
\* caller so far are kept beside the page returned.
Retrieve(p, input, before) ==
    \E order \in Orderings(input.orderBy, {c \in comments : c.tenantID = "t1"}) :
       /\ cp' = [cp EXCEPT ![p] =
                   [NoCall EXCEPT !.op = "page", !.input = input, !.result = "ok",
                                  !.ret = Page(order, input),
                                  !.stored = before \o Page(order, input).nodes]]
       /\ UNCHANGED <<comments, clock, uuid, linked>>
       /\ UNCHANGED <<archiveVars, deltaVars>>

\* The first page of a connection: no after.
FirstPage(p, orderBy, first) ==
    /\ first > 0
    /\ Retrieve(p, [orderBy |-> orderBy, first |-> first, after |-> 0], <<>>)

\* The next page: after is the endCursor of the page before.
NextPage(p) ==
    /\ cp[p].op = "page"
    /\ cp[p].ret.hasNextPage
    /\ Retrieve(p, [cp[p].input EXCEPT !.after = cp[p].ret.endCursor],
                cp[p].stored)

PagesNext ==
    \E p \in SeqProcs :
       \/ \E orderBy \in {"REPLIES_DESC", "REACTION_DESC"}, first \in {1, 2} :
             FirstPage(p, orderBy, first)
       \/ NextPage(p)

SpecPages == PagesInit /\ [][PagesNext]_vars

\* C29: under REPLIES_DESC and REACTION_DESC the cursor of the node at index
\* i of a page is after + i + 1 (after is 0 on the first page), and the pages
\* asked for one after the other, each with the endCursor of the one before,
\* go through an unchanged comment set without repeating a comment and,
\* once there is no next page, without having skipped one.
C29_PagesNeitherSkipNorRepeat ==
    \A p \in Procs : cp[p].op = "page" =>
        /\ \A i \in 1..Len(cp[p].ret.cursors) :
              cp[p].ret.cursors[i] = cp[p].input.after + (i - 1) + 1
        /\ \A i, j \in 1..Len(cp[p].stored) :
              cp[p].stored[i] = cp[p].stored[j] => i = j
        /\ ~cp[p].ret.hasNextPage =>
              \A c \in comments :
                 c.tenantID = "t1" =>
                    \E i \in 1..Len(cp[p].stored) : cp[p].stored[i] = c.id

\* ------------------------------------------------------------------ the parents of a comment
\* The longest chain of ancestors of a comment.
MaxAncestors == 3

\* The ids of the ancestors, the direct parent first.
AncestorID(i) == 20 + i

\* The entry of a list of retrieved comments for an id that was not found.
Null == 0

\* Every ancestor is stored when the comment is read; a comment of another
\* tenant has the id of the direct parent.
ParentsInit ==
    /\ ArchiveInit
    /\ ~stories[TheStory].isArchiving
    /\ chain = <<>>
    /\ clock = 3
    /\ uuid = AncestorID(MaxAncestors)
    /\ cp = [p \in Procs |-> NoCall]
    /\ linked = <<>>
    /\ comments = {[FirstComment("t1", "NONE", NoDate) EXCEPT !.id = AncestorID(i)] :
                      i \in 1..MaxAncestors}
                  \cup {[FirstComment("t2", "NONE", NoDate) EXCEPT !.id = AncestorID(1)]}

\* The bulk delete of moveDocuments on the live comments: a batch of ids of
\* the tenant leaves the collection.
RemoveBatch(deleteIDs) ==
    /\ deleteIDs # {}
    /\ Cardinality(deleteIDs) <= BATCH_SIZE
    /\ deleteIDs \subseteq {c.id : c \in {d \in comments : d.tenantID = "t1"}}
    /\ comments' = {c \in comments : ~(c.tenantID = "t1" /\ c.id \in deleteIDs)}
    /\ UNCHANGED <<clock, uuid, cp, linked>>
    /\ UNCHANGED <<archiveVars, deltaVars>>

\* retrieveManyComments: one entry for each id, Null for an id that is not
\* found, when at least one is found; the empty list when none is.
retrieveManyComments(tenantID, ids) ==
    LET items == {c \in comments : c.tenantID = tenantID
                                   /\ \E i \in 1..Len(ids) : ids[i] = c.id}
    IN  IF items # {}
        THEN [i \in 1..Len(ids) |->
                IF \E c \in items : c.id = ids[i] THEN ids[i] ELSE Null]
        ELSE <<>>

hasAncestors(comment) == Len(comment.ancestorIDs) > 0

doesNotContainNull(nodes) == \A i \in 1..Len(nodes) : nodes[i] # Null

\* ancestorIDs.slice(skip, skip + limit)
Slice(ids, skip, limit) ==
    SubSeq(ids, skip + 1, IF skip + limit < Len(ids) THEN skip + limit ELSE Len(ids))

\* What retrieveCommentParentsConnection returns or throws.
ParentsResult(tenantID, comment, limit, skip) ==
    IF ~hasAncestors(comment)
    THEN [result |-> "ok", nodes |-> <<>>, cursors |-> <<>>, hasPreviousPage |-> FALSE]
    ELSE IF limit <= 0
    THEN [result |-> "ok", nodes |-> <<>>, cursors |-> <<>>, hasPreviousPage |-> TRUE]
    ELSE LET ancestorIDs == Slice(comment.ancestorIDs, skip, limit)
             nodes == retrieveManyComments(tenantID, ancestorIDs)
         IN  IF ~doesNotContainNull(nodes)
             THEN [result |-> "parent id specified does not exist",
                   nodes |-> <<>>, cursors |-> <<>>, hasPreviousPage |-> FALSE]
             ELSE [result |-> "ok", nodes |-> nodes,
                   cursors |-> [i \in 1..Len(nodes) |-> (i - 1) + skip + 1],
                   hasPreviousPage |-> Len(comment.ancestorIDs) > limit + skip]

\* The comments whose parents are asked for: replies at every depth.
ParentsInputs ==
    [comment : {[id |-> 30, ancestorIDs |-> [i \in 1..n |-> AncestorID(i)]] :
                   n \in 0..MaxAncestors},
     last : 0..MaxAncestors,
     before : 0..(MaxAncestors - 1)]

\* retrieveCommentParentsConnection: one read of the collection.
retrieveCommentParentsConnection(p, input) ==
    LET r == ParentsResult("t1", input.comment, input.last, input.before)
    IN  /\ cp' = [cp EXCEPT ![p] =
                    [NoCall EXCEPT !.op = "parents", !.input = input,
                                   !.result = r.result, !.ret = r]]
        /\ UNCHANGED <<comments, clock, uuid, linked>>
        /\ UNCHANGED <<archiveVars, deltaVars>>

ParentsNext ==
    \/ \E deleteIDs \in SUBSET {AncestorID(i) : i \in 1..MaxAncestors} :
          RemoveBatch(deleteIDs)
    \/ \E p \in SeqProcs, input \in ParentsInputs :
          retrieveCommentParentsConnection(p, input)

SpecParents == ParentsInit /\ [][ParentsNext]_vars

\* The ancestors of the window of a call that are not stored for the tenant.
Unresolved(input) ==
    LET window == Slice(input.comment.ancestorIDs, input.before, input.last)
    IN  {window[i] : i \in 1..Len(window)}
        \ {c.id : c \in {d \in comments : d.tenantID = "t1"}}

\* C30: a call of retrieveCommentParentsConnection with a limit above zero
\* whose window holds at least one ancestor that resolves to nothing, one of
\* them or all of them, ends with the error and never with a page.
C30_MissingAncestorIsAnError ==
    [][\A p \in Procs :
          (/\ cp'[p] # cp[p]
           /\ cp'[p].op = "parents"
           /\ cp'[p].input.last > 0
           /\ Unresolved(cp'[p].input) # {})
          => cp'[p].result = "parent id specified does not exist"]_vars

\* ------------------------------------------------------------------ documents in flight
\* The documents the stores held at first, by collection.
DocsAtFirst(c) == pre.db.live[c] \cup pre.db.archive[c]

\* A document of collection c is in both stores.
InBoth(c) == db.live[c] \cap db.archive[c]

\* The batch of caller p has been inserted into the destination and is not
\* yet deleted from the source.
BatchInserted(p) ==
    IF proc[p].pc \in {"delete", "finalDelete"} THEN proc[p].insertBatch ELSE {}

\* Every document there was is in the live store or in the archive store.
NoDocumentLost ==
    \A c \in CollNames : DocsAtFirst(c) \subseteq db.live[c] \cup db.archive[c]

\* A document in both stores is in the inserted batch of a call in progress
\* on its collection.
BothOnlyWithinBatch ==
    \A c \in CollNames :
        \A d \in InBoth(c) :
            \E p \in Procs : proc[p].pc # "idle" /\ Coll(p) = c /\ d \in BatchInserted(p)

LeftInSource(p, c) ==
    IF c = "commentModerationActions"
    THEN {d \in db[Source(p)][c] : d.tenantID = proc[p].target[1]
                                   /\ d.commentID \in proc[p].targetCommentIDs}
    ELSE {d \in db[Source(p)][c] : d.tenantID = proc[p].target[1]
                                   /\ d.storyID = proc[p].target[2]}

\* The aggregate a call that follows no failed call leaves behind: the
\* initial one less the story's counts after an archive, the initial one
\* after an unarchive.
CountsAfter(p, atFirst) ==
    IF proc[p].op = "archive" THEN IncCounts(atFirst, Delta(p)) ELSE atFirst

\* C32: in a call of archiveStory or unarchiveStory no comment action and no
\* moderation action is written while a comment of the story is left in the
\* source; no aggregate is updated while a document of any of the three
\* kinds is left to move; and the story's flags are written by the step
\* that ends the call, after the site and the cache aggregate were updated.
C32_StepsInOrder ==
    [][\A p \in Procs :
          proc'[p] # proc[p] =>
             /\ (\E s \in StoreNames :
                    \/ db'[s].commentActions # db[s].commentActions
                    \/ db'[s].commentModerationActions
                          # db[s].commentModerationActions)
                   => LeftInSource(p, "comments") = {}
             /\ (siteCounts' # siteCounts \/ sharedCounts' # sharedCounts)
                   => \A c \in CollNames : LeftInSource(p, c) = {}
             /\ stories' # stories
                   => /\ proc'[p].pc = "idle"
                      /\ proc'[p].result = "ok"
                      /\ UNCHANGED <<db, siteCounts, sharedCounts>>
                      /\ NoFailedCall =>
                            /\ siteCounts[proc[p].target]
                                  = CountsAfter(p, pre.siteCounts[proc[p].target])
                            /\ sharedCounts[proc[p].target[1]]
                                  = CountsAfter(p, pre.sharedCounts[proc[p].target[1]])
      ]_vars

C32_Witness ==
    \E p \in Procs :
        /\ Completed(p, "unarchive")
        /\ NoFailedCall
        /\ StoryActions("live", proc[p].target) = StoryActionsAtFirst(proc[p].target)
        /\ StoryComments("live", proc[p].target) = StoryCommentsAtFirst(proc[p].target)
        /\ \E i \in 1..Len(log) : log[i].op = "archive" /\ log[i].result = "ok"
        /\ siteCounts = pre.siteCounts

\* ------------------------------------------------------------------ concurrent archive calls
\* archiveStory called by concurrent callers for the same story, with stores
\* that do not fail.
ArchivesNext ==
    \E p \in Procs :
       \/ Call(p, "archive", TheStory)
       \/ FindStory(p)
       \/ HasNext(p)
       \/ BulkInsert(p)
       \/ BulkDelete(p)
       \/ FinalDelete(p)
       \/ UpdateSiteCounts(p)
       \/ UpdateSharedCounts(p)
       \/ MarkStory(p)

SpecArchives == CountersInit /\ [][ArchivesNext]_vars

\* C33: once two or more archive calls for the same live story have ended,
\* whatever their interleaving, the story's commentCounts have been taken
\* off the site aggregate and off the cache aggregate once, and every
\* document of the story is in the archive store and not in the live store.
C33_ConcurrentArchivesCountOnce ==
    (InProgress = {} /\ Len(log) >= 2) =>
        LET delta == getCommentCounts(pre.stories[TheStory].commentCounts, TRUE)
        IN  /\ siteCounts[TheStory] = IncCounts(pre.siteCounts[TheStory], delta)
            /\ sharedCounts["t1"] = IncCounts(pre.sharedCounts["t1"], delta)
            /\ StoryComments("live", TheStory) = {}
            /\ StoryComments("archive", TheStory) = StoryCommentsAtFirst(TheStory)
            /\ StoryActions("live", TheStory) = {}
            /\ StoryActions("archive", TheStory) = StoryActionsAtFirst(TheStory)

\* ------------------------------------------------------------------ comments created during an archive
\* Comments created on the story in one behaviour.
MaxCreated == 1

\* The comments of the story that were created after the first state.
Created ==
    {d \in db.live.comments \cup db.archive.comments : d.oid > NumComments}

\* The counts of one new comment with status NONE: it is unmoderated.
NewCommentCounts ==
    [action |-> [k \in {} |-> 0],
     moderationQueue |->
        [total |-> 1,
         queues |-> [q \in QueueNames |-> IF q = "unmoderated" THEN 1 ELSE 0]],
     status |-> [s \in Statuses |-> IF s = "NONE" THEN 1 ELSE 0]]

\* The new comments whose counts the story has not been given yet.
Uncounted ==
    Cardinality(Created)
    - (stories[TheStory].commentCounts.status["NONE"]
       - pre.stories[TheStory].commentCounts.status["NONE"])

\* createComment on the story: the insertOne of the new comment into the
\* live comments, on a story that is not marked archived.
CreateOnStory ==
    /\ ~stories[TheStory].isArchived
    /\ Cardinality(Created) < MaxCreated
    /\ LET n == NumComments + 1 + Cardinality(Created)
       IN  db' = [db EXCEPT !.live.comments =
                     @ \cup {CommentDoc(n, "t1", n, "s1", "NONE")}]
    /\ UNCHANGED <<stories, siteCounts, sharedCounts, proc, log, pre>>
    /\ UNCHANGED <<commentVars, deltaVars>>

\* The counts of a new comment are applied: the story's own commentCounts,
\* the site aggregate and the cache aggregate are incremented.
CountCreated ==
    /\ Uncounted > 0
    /\ stories' = [stories EXCEPT ![TheStory].commentCounts =
                      IncCounts(@, NewCommentCounts)]
    /\ siteCounts' = [siteCounts EXCEPT ![TheStory] = IncCounts(@, NewCommentCounts)]
    /\ sharedCounts' = [sharedCounts EXCEPT !["t1"] = IncCounts(@, NewCommentCounts)]
    /\ UNCHANGED <<db, proc, log, pre>>
    /\ UNCHANGED <<commentVars, deltaVars>>

\* One caller archives the story while comments are created on it.
WritersNext ==
    \/ \E p \in SeqProcs :
          \/ Call(p, "archive", TheStory)
          \/ FindStory(p)
          \/ HasNext(p)
          \/ BulkInsert(p)
          \/ BulkDelete(p)
          \/ FinalDelete(p)
          \/ UpdateSiteCounts(p)
          \/ UpdateSharedCounts(p)
          \/ MarkStory(p)
    \/ CreateOnStory
    \/ CountCreated

SpecWriters == CountersInit /\ [][WritersNext]_vars

\* C34: the step of archiveStory that marks the story archived finds no
\* comment of the story in the live store, and the counts the call has
\* taken off the aggregates are the story's commentCounts as they are at
\* that step, also when a comment was created on the story or its counts
\* changed while the call was in progress.
C34_ArchiveTakesLateComments ==
    [][(stories'[TheStory].isArchived /\ ~stories[TheStory].isArchived) =>
          /\ StoryComments("live", TheStory) = {}
          /\ \A p \in Procs :
                proc[p].pc = "mark" =>
                   proc[p].targetStory.commentCounts
                      = stories[TheStory].commentCounts
      ]_vars

\* ------------------------------------------------------------------ an edit that races with a moderator
\* C35: the error of an edit whose write matched nothing is the one of the
\* comment as it was at the write, whatever happens to the comment before
\* it is read again.  No step changes the author, the createdAt or the
\* deletedAt of a comment, so a write that matched nothing on the author's
\* own, undeleted comment inside the edit window failed on the status, and
\* the error of that state is NotEditable.
C35_ErrorIsTheOneAtTheWrite ==
    [][\A p \in Procs : Takes(p, "editRefetch") =>
          \A c \in Addressed(p) :
             (/\ c.authorID = cp[p].input.authorID
              /\ c.deletedAt = NoDate
              /\ c.createdAt > cp[p].input.lastEditableCommentCreatedAt)
                => cp'[p].result = "NotEditable"
      ]_vars

\* ------------------------------------------------------------------ two edits at once
\* The edits of comment 1 by its author inside the edit window: the status
\* the edit gives the comment is any status, with and without action counts.
AuthorEditInputs ==
    [id : {1}, authorID : {"u1"}, status : {"PREMOD", "APPROVED", "REJECTED"},
     lastEditableCommentCreatedAt : {0},
     actionCounts : {NoCounts, OneReaction}]

\* The comment is editable: status NONE, not deleted.
TwoEditsInit ==
    /\ EditInit
    /\ \A c \in comments : c.status = "NONE" /\ c.deletedAt = NoDate

\* editComment is called while no call has come to its write yet.
ConcurrentEditCall(p, input) ==
    /\ \A q \in Procs : cp[q].pc \in {"idle", "editWrite"} /\ cp[q].result = "none"
    /\ EditCall(p, input)

TwoEditsNext ==
    \E p \in Procs :
       \/ \E input \in AuthorEditInputs : ConcurrentEditCall(p, input)
       \/ EditWrite(p)
       \/ EditRefetch(p)

SpecTwoEdits == TwoEditsInit /\ [][TwoEditsNext]_vars

\* The edit of caller p has ended.
EditEnded(p) == cp[p].op = "edit" /\ cp[p].pc = "idle"

\* The revisions and the action counts of comment 1 hold the edit of p.
EditIsIn(p) ==
    \A c \in comments :
        (c.tenantID = "t1" /\ c.id = 1) =>
            /\ \E i \in 1..Len(c.revisions) : c.revisions[i] = cp[p].revision
            /\ cp[p].input.actionCounts # NoCounts =>
                  /\ "REACTION" \in DOMAIN c.actionCounts
                  /\ c.actionCounts["REACTION"]
                        = Cardinality({q \in Procs :
                             /\ EditEnded(q) /\ cp[q].result = "ok"
                             /\ cp[q].input.actionCounts # NoCounts})

\* C36 as stated: two edits of an editable comment by its author, inside the
\* edit window and issued before either has written, both succeed, and the
\* comment has both new revisions and both deltas of action counts.
C36_BothEditsSucceed ==
    \A p \in Procs :
        EditEnded(p) => (cp[p].result = "ok" /\ EditIsIn(p))

\* C36 as amended: every such edit that succeeds is in the comment, its
\* revision appended and its delta added, and none is lost; two edits that
\* both give the comment an editable status both succeed; an edit fails only
\* with NotEditable, and only when the other edit has written before it and
\* has given the comment the status REJECTED.
C36_EditsSucceedUnlessRejectedFirst ==
    \A p \in Procs :
        EditEnded(p) =>
            /\ cp[p].result \in {"ok", "NotEditable"}
            /\ cp[p].result = "ok" => EditIsIn(p)
            /\ cp[p].result = "NotEditable" =>
                  \E q \in Procs \ {p} :
                     /\ EditEnded(q) /\ cp[q].result = "ok"
                     /\ cp[q].input.status = "REJECTED"
            /\ \A q \in Procs \ {p} :
                  (/\ EditEnded(q)
                   /\ cp[p].input.status \in EDITABLE_STATUSES
                   /\ cp[q].input.status \in EDITABLE_STATUSES)
                     => cp[p].result = "ok" /\ cp[q].result = "ok"

C36_Witness ==
    /\ \A p \in Procs :
          /\ EditEnded(p)
          /\ cp[p].result = "ok"
          /\ cp[p].input.actionCounts = OneReaction
    /\ \E c \in comments :
          /\ c.tenantID = "t1"
          /\ Len(c.revisions) = 3
          /\ c.actionCounts["REACTION"] = 2

\* ------------------------------------------------------------------ every mutator, one tenant
\* The calls of a behaviour, of the archive service and of the comment
\* model together.
CallsIssued == Len(log) + Cardinality(InProgress) + OpsIssued

\* Every mutator of the comment model and of the archive service, called
\* with tenant t1, one caller, beside documents of tenant t2 with the same
\* ids and the same story id.
TenantsNext ==
    \E p \in SeqProcs :
       \/ \E o \in {"archive", "unarchive"} :
             CallsIssued < MaxOps /\ Call(p, o, TheStory)
       \/ FindStory(p)
       \/ HasNext(p)
       \/ BulkInsert(p)
       \/ BulkDelete(p)
       \/ FinalDelete(p)
       \/ UpdateSiteCounts(p)
       \/ UpdateSharedCounts(p)
       \/ MarkStory(p)
       \/ \E input \in LinkInputs :
             CallsIssued < MaxOps /\ pushChildCommentIDOntoParent(p, input)
       \/ \E input \in AuthorEdits : CallsIssued < MaxOps /\ EditCall(p, input)
       \/ EditWrite(p)
       \/ EditRefetch(p)
       \/ \E input \in Moderations :
             CallsIssued < MaxOps /\ UpdateStatusCall(p, input)
       \/ UpdateStatusWrite(p)
       \/ \E input \in CountInputs :
             CallsIssued < MaxOps /\ updateCommentActionCounts(p, input)
       \/ \E input \in TagInputs : CallsIssued < MaxOps /\ AddTagCall(p, input)
       \/ AddTagWrite(p)
       \/ AddTagRefetch(p)
       \/ \E input \in TagInputs : CallsIssued < MaxOps /\ RemoveTagCall(p, input)
       \/ RemoveTagWrite(p)
       \/ RemoveTagRefetch(p)
       \/ CallsIssued < MaxOps /\ removeStoryComments(p, "s1")
       \/ CallsIssued < MaxOps /\ mergeManyCommentStories(p, "s2", {"s1"})

SpecTenants == EditInit /\ [][TenantsNext]_vars

\* The documents of a set that are not of tenant t1.
OfOtherTenants(docs) == {d \in docs : d.tenantID # "t1"}

\* C37: no step of a mutator called with tenant t1 modifies, moves or
\* deletes a document of another tenant: the comments of the other tenants,
\* their documents in every collection of the live and the archive store and
\* their stories are after the step what they were before it.
C37_OtherTenantsUntouched ==
    [][/\ OfOtherTenants(comments') = OfOtherTenants(comments)
       /\ \A s \in StoreNames : \A c \in CollNames :
             OfOtherTenants(db'[s][c]) = OfOtherTenants(db[s][c])
       /\ stories'[OtherTenantStory] = stories[OtherTenantStory]
      ]_vars

\* The story of t1 is archived and the comment of t1 has left story s1,
\* while t2 has a comment, an action and a moderation action with the same
\* ids on a story with the same id.
C37_Witness ==
    /\ \E p \in Procs : Completed(p, "archive")
    /\ StoryComments("live", TheStory) = {}
    /\ \A c \in comments : c.tenantID = "t1" => c.storyID # "s1"
    /\ \E c \in comments : c.tenantID = "t2" /\ c.id = 1 /\ c.storyID = "s1"
    /\ \E d \in db.live.comments : d.tenantID = "t2" /\ d.id = 1 /\ d.storyID = "s1"
    /\ \E d \in db.live.commentModerationActions : d.tenantID = "t2" /\ d.commentID = 1

\* ------------------------------------------------------------------ connections ordered by createdAt
\* Comment i of the set paged by date: the comments with an even i are
\* APPROVED, the others NONE, so that a status filter matches a part.
DatedComment(i, createdAt) ==
    [PagedComment(i, createdAt) EXCEPT
        !.status = IF i % 2 = 0 THEN "APPROVED" ELSE "NONE"]

\* Every assignment of a createdAt to the comments of the tenant, several
\* comments of one createdAt included; a comment of another tenant beside.
DatePagesInit ==
    /\ ArchiveInit
    /\ ~stories[TheStory].isArchiving
    /\ chain = <<>>
    /\ clock = NumPaged + 1
    /\ uuid = 10 + NumPaged
    /\ cp = [p \in Procs |-> NoCall]
    /\ linked = <<>>
    /\ \E createdAt \in [1..NumPaged -> 1..NumPaged] :
          comments = {DatedComment(i, createdAt[i]) : i \in 1..NumPaged}
                     \cup {FirstComment("t2", "NONE", NoDate)}

\* input.filter of a connection: none, or the status of the comments.
NoFilter == "none"

\* where({tenantID}) and where(input.filter).
Filtered(tenantID, filter) ==
    {c \in comments : /\ c.tenantID = tenantID
                      /\ filter # NoFilter => c.status = filter}

\* orderBy({createdAt: -1}) or orderBy({createdAt: 1}) puts c before d.
CreatedBefore(orderBy, c, d) ==
    IF orderBy = "CREATED_AT_DESC" THEN c.createdAt > d.createdAt
    ELSE c.createdAt < d.createdAt

\* The orders the sort may return the documents in: comments of one
\* createdAt come in any order.
RECURSIVE CreatedOrderings(_, _)
CreatedOrderings(orderBy, docs) ==
    IF docs = {} THEN {<<>>}
    ELSE UNION {{<<d>> \o rest : rest \in CreatedOrderings(orderBy, docs \ {d})} :
                  d \in {d \in docs : \A e \in docs : ~CreatedBefore(orderBy, e, d)}}

\* if (input.after) where({createdAt: {$lt: after}}) for CREATED_AT_DESC,
\* {$gt: after} for CREATED_AT_ASC; no after is 0.
AfterCursor(input, c) ==
    \/ input.after = 0
    \/ input.orderBy = "CREATED_AT_DESC" /\ c.createdAt < input.after
    \/ input.orderBy = "CREATED_AT_ASC" /\ c.createdAt > input.after

\* cursorGetterFactory for CREATED_AT_DESC and CREATED_AT_ASC.
createdAtCursor(comment) == comment.createdAt

\* resolveConnection: the sorted documents beyond the cursor, cut to
\* `first`, each with its cursor.
DatePage(order, input) ==
    LET rest == SelectSeq(order, LAMBDA c : AfterCursor(input, c))
        nodes == SubSeq(rest, 1, IF Len(rest) < input.first THEN Len(rest)
                                 ELSE input.first)
        cursors == [i \in 1..Len(nodes) |-> createdAtCursor(nodes[i])]
    IN  [nodes |-> [i \in 1..Len(nodes) |-> nodes[i].id],
         cursors |-> cursors,
         hasNextPage |-> Len(rest) > input.first,
         endCursor |-> IF Len(nodes) > 0 THEN cursors[Len(nodes)] ELSE 0]

\* retrieveCommentConnection ordered by createdAt with the input of caller
\* p; the pages of the caller so far are kept beside the page returned.
RetrieveByDate(p, input, before) ==
    \E order \in CreatedOrderings(input.orderBy, Filtered("t1", input.filter)) :
       /\ cp' = [cp EXCEPT ![p] =
                   [NoCall EXCEPT !.op = "datePage", !.input = input,
                                  !.result = "ok",
                                  !.ret = DatePage(order, input),
                                  !.stored = before \o DatePage(order, input).nodes]]
       /\ UNCHANGED <<comments, clock, uuid, linked>>
       /\ UNCHANGED <<archiveVars, deltaVars>>

\* The first page of a connection ordered by createdAt: no after.
FirstDatePage(p, orderBy, filter, first) ==
    /\ first > 0
    /\ RetrieveByDate(p, [orderBy |-> orderBy, filter |-> filter,
                          first |-> first, after |-> 0], <<>>)

\* The next page: after is the endCursor of the page before.
NextDatePage(p) ==
    /\ cp[p].op = "datePage"
    /\ cp[p].ret.hasNextPage
    /\ RetrieveByDate(p, [cp[p].input EXCEPT !.after = cp[p].ret.endCursor],
                      cp[p].stored)

DatePagesNext ==
    \E p \in SeqProcs :
       \/ \E orderBy \in {"CREATED_AT_DESC", "CREATED_AT_ASC"},
             filter \in {NoFilter, "APPROVED"}, first \in {1, 2} :
             FirstDatePage(p, orderBy, filter, first)
       \/ NextDatePage(p)

SpecDatePages == DatePagesInit /\ [][DatePagesNext]_vars

\* C38: the pages of a connection ordered by createdAt, descending or
\* ascending, asked for one after the other, each with the endCursor of the
\* one before as after, go through an unchanged, filtered comment set
\* without repeating a comment and, once there is no next page, without
\* having skipped one, whatever the createdAt of the comments, comments of
\* one createdAt included.
C38_DatePagesReturnEveryCommentOnce ==
    \A p \in Procs : cp[p].op = "datePage" =>
        /\ \A i, j \in 1..Len(cp[p].stored) :
              cp[p].stored[i] = cp[p].stored[j] => i = j
        /\ ~cp[p].ret.hasNextPage =>
              \A c \in Filtered("t1", cp[p].input.filter) :
                 \E i \in 1..Len(cp[p].stored) : cp[p].stored[i] = c.id

====
